---- MODULE Spec2Model ----
(***************************************************************************)
(* Verification model of the igus motion editor: the arm microcontroller   *)
(* (command dispatcher, sequencer, persistent store) and the host          *)
(* (connection state machine, keyframe player, sequence uploader).         *)
(***************************************************************************)
EXTENDS Integers, Naturals, Sequences, FiniteSets, TLC

(***************************************************************************)
(* Protocol constants (microcontroller/protocol.h)                         *)
(***************************************************************************)
NUM_AXES == 8
MAX_KEYFRAMES == 128
NT_POSITION_BIAS == 16384

CMD_INIT == 0
CMD_RESET == 1
CMD_CONFIG == 2
CMD_READ_KEYFRAME == 3
CMD_SAVE_KEYFRAME == 4
CMD_EXIT == 5
CMD_COMMIT == 6
CMD_PLAY == 7
CMD_STOP == 8
CMD_FEEDBACK == 9
CMD_MOTION == 10
CMD_COUNT == 11

OC_NOP == 0
OC_SET == 1
OC_RESET == 2

FF_PLAYING == 1
PF_LOOP == 1

\* sizeof() of the packed payload structs
SIZEOF_Keyframe == 2 + 2 * NUM_AXES + 1
SIZEOF_SaveKeyframe == 1 + SIZEOF_Keyframe
SIZEOF_ReadKeyframe == 1
SIZEOF_Config == 2 + 2 + 2 * NUM_AXES + 2
SIZEOF_Motion == 2 * NUM_AXES + 2 * NUM_AXES + 1 + 1

\* deadline of the start-keyframe move, in timer ticks (ms)
START_TIMEOUT == 8000
\* consecutive "reached" observations that end the start-keyframe move
SAFETY_COUNT == 10
\* consecutive high samples of the sync line that end io_synchronize
SYNC_COUNT == 20

Axes == 0 .. (NUM_AXES - 1)
KfIndex == 0 .. (MAX_KEYFRAMES - 1)

(***************************************************************************)
(* Bounds of the model                                                     *)
(***************************************************************************)
\* longest keyframe duration (ms) the environment puts into a keyframe
MaxDuration == 1
\* largest num_keyframes for which the environment starts a playback
MaxPlayKf == 4
\* The keyframe arrays (g_buffer, g_keyframe_memory) are tracked on the slots
\* 0 .. MaxPlayKf; the sequencer is never started on a longer sequence, and a
\* frame stored at another slot below MAX_KEYFRAMES is not tracked.
KfSlots == 0 .. MaxPlayKf

VARIABLES
    \* ---- device RAM ----
    mem_config,        \* proto::Config mem_config
    g_buffer,          \* proto::Keyframe g_buffer[MAX_KEYFRAMES]
    g_isPlaying,
    g_shouldStop,
    g_reached,         \* timer deadline flag
    g_delta,           \* ms since resetTimer()
    g_remaining,       \* g_dest - g_ticks, ms until the deadline (0 when passed)
    g_extShouldQuit,
    \* ---- device EEPROM ----
    g_config_memory,
    g_keyframe_memory,
    \* ---- device control position ----
    devPc,             \* which loop of the firmware is executing
    seg_i,             \* index i of the for loop in motion_runSequence
    loop,              \* local "loop" of motion_runSequence
    force_loop,        \* argument of motion_runSequence
    safety_counter,    \* local of motion_doStartKeyframe
    sync_counter,      \* local "counter" of io_synchronize
    output,            \* digital output (PORTC bit 0)
    \* ---- observation of the last dispatched packet ----
    rxCmd,             \* the packet handleCommand() was last called with
    txLog,             \* command codes of the reply packets written for it
    \* ---- host: transport thread (RobotInterface) ----
    ri,                \* the members of the RobotInterface object
    bytesWritten,      \* result of the last serial.write in txrx (-1: none in the last step)
    riQueue,           \* queued keyframeTransferRequested signals
    \* ---- host: user interface thread (IgusMotionEditor, KeyframePlayer) ----
    kfpActive,         \* keyframePlayer.timer.isActive()
    looped,            \* keyframePlayer.looped
    uiQueue,           \* queued signals of the RobotInterface for the user interface
    \* ---- serial line ----
    linkUp,            \* the cable is plugged and the device powered
    \* ---- host: motion sequence and its upload ----
    motionSequence,    \* the keyframes in the motion sequence area
    head,              \* keyframePlayer.playingList(): the timeline
    wire,              \* keyframes of the SAVE_KEYFRAME packets of the last transfer
    wireMotion,        \* the last MOTION packet written, with the values it was built from
    chat,              \* the exchanges of the last keyframe upload, packet by packet
    transition,        \* what handle_checkComplianceMode did in the last step()
    driver,            \* the last look-ahead command handed to the motor driver
    startMove,         \* what was seen of the move to the start keyframe
    nanoj,             \* locals of main() of the tendon controller, and its last readings
    ring,              \* a CircularBuffer with its indices, the bytes it owes and the last get()
    resync,            \* the last extCommand followed read by read: what arrived and what it returned
    player,            \* the KeyframePlayer: its timeline, current, sliderPosition, timer and signals
    calls,             \* device: the playback routines in progress, innermost last, and their flags
    bringup,           \* host: the initialisation flags, the place of the transport thread, the axis
    upload,            \* host: the timeline of the player and the traversal of it by transferKeyframes
    bus,               \* device: the RS-485 exchange of readRegister with the motor controllers
    \* ---- device: serial line to the host ----
    com_buf_to_bot,    \* bytes received from the host and not yet taken
    parser_state,
    command,
    payloadLength,
    payloadIdx,
    payloadBuffer,
    ticks_since_last_msg, \* local of handleCommands
    mainPc,            \* main(): "wait" for a byte, or "match" in the do-while
    offset,            \* local of main(): matched bytes of the INIT pattern
    uart_rob,          \* bytes written to the RS-485 bus, in order
    com_buf_to_pc,     \* bytes from the bus queued for the host
    uart_pc,           \* bytes written to the host, in order
    \* ---- observation of the decoder ----
    rxTrace,           \* bytes given to cmd_input since it was last called in PS_START
    decoded,           \* arguments of the handleCommand call of the last cmd_input
    dispatchCount,     \* calls of handleCommand made by cmd_input
    hostLog,           \* bytes the host has sent, in order
    busLog,            \* bytes that arrived from the bus, in order
    initCount          \* INIT packets recognised by the matcher of main()

devVars == <<mem_config, g_buffer, g_isPlaying, g_shouldStop, g_reached, g_delta,
             g_remaining, g_extShouldQuit, g_config_memory, g_keyframe_memory,
             devPc, seg_i, loop, force_loop, safety_counter, sync_counter,
             output, rxCmd, txLog>>

hostVars == <<ri, bytesWritten, riQueue, kfpActive, looped, uiQueue, linkUp>>

auxVars == <<ring, resync, player, calls, bringup, upload, bus>>
unitVars == <<driver, startMove, nanoj, auxVars>>
editVars == <<motionSequence, head, wire, wireMotion, chat, transition, unitVars>>

parserVars == <<parser_state, command, payloadLength, payloadIdx, payloadBuffer>>

passVars == <<mainPc, offset, uart_rob, com_buf_to_pc, uart_pc>>

serialLogs == <<rxTrace, decoded, dispatchCount, hostLog, busLog, initCount>>

serialVars == <<com_buf_to_bot, parserVars, ticks_since_last_msg, passVars, serialLogs>>

vars == <<devVars, hostVars, editVars, serialVars>>

(***************************************************************************)
(* Data                                                                    *)
(***************************************************************************)
Keyframe(d, t, oc) ==
    [duration |-> d, ticks |-> [j \in Axes |-> IF j = 0 THEN t ELSE 0], output_command |-> oc]

ZeroKeyframe == Keyframe(0, 0, OC_NOP)

Config(n, a, la) == [num_keyframes |-> n, active_axes |-> a, lookahead |-> la]

\* Initial EEPROM image: g_config_memory = {0xF, 0}, g_keyframe_memory zeroed
EepromImageConfig == Config(15, 0, 0)

NoPacket == [command |-> CMD_COUNT, length |-> 0, index |-> 0, keyframe |-> ZeroKeyframe,
             config |-> EepromImageConfig, flags |-> 0, keyok |-> FALSE, oc |-> OC_NOP]

Packet(c, len) == [NoPacket EXCEPT !.command = c, !.length = len]

\* keyframes the environment may store: the initial frame (duration 0) and
\* moving frames of every duration up to MaxDuration
KfInputs ==
    {Keyframe(0, NT_POSITION_BIAS, OC_NOP)}
    \cup {Keyframe(d, NT_POSITION_BIAS + 100, OC_SET) : d \in 1 .. MaxDuration}

\* SAVE_KEYFRAME payloads: the start frame at index 0, any frame at index 1,
\* and a frame addressed one past the end of the buffer
SaveInputs ==
    {<<0, Keyframe(0, NT_POSITION_BIAS, OC_NOP)>>}
    \cup {<<1, k>> : k \in KfInputs}
    \cup {<<MAX_KEYFRAMES, Keyframe(1, NT_POSITION_BIAS + 100, OC_SET)>>}

\* configurations the environment writes
CfgInputs ==
    {Config(n, 1, MaxDuration + 1) : n \in {3, MAX_KEYFRAMES, MAX_KEYFRAMES + 1}}
    \cup {Config(2, 1, 0)}

\* well-formed packets (correct framing and checksum) the host may send
Packets ==
    {Packet(CMD_INIT, 0), Packet(CMD_EXIT, 0), Packet(CMD_COMMIT, 0),
     Packet(CMD_STOP, 0), Packet(CMD_FEEDBACK, 0),
     Packet(CMD_CONFIG, 0), Packet(CMD_CONFIG, 1)}
    \cup {[Packet(CMD_CONFIG, SIZEOF_Config) EXCEPT !.config = c] : c \in CfgInputs}
    \cup {[Packet(CMD_SAVE_KEYFRAME, SIZEOF_SaveKeyframe) EXCEPT !.index = s[1], !.keyframe = s[2]] :
              s \in SaveInputs}
    \cup {Packet(CMD_SAVE_KEYFRAME, 1)}
    \cup {[Packet(CMD_READ_KEYFRAME, SIZEOF_ReadKeyframe) EXCEPT !.index = 1]}
    \cup {Packet(CMD_READ_KEYFRAME, 0)}
    \cup {[Packet(CMD_PLAY, 1) EXCEPT !.flags = f] : f \in {0, PF_LOOP}}
    \cup {[Packet(CMD_RESET, 8) EXCEPT !.keyok = b] : b \in BOOLEAN}
    \cup {[Packet(CMD_MOTION, SIZEOF_Motion) EXCEPT !.oc = OC_RESET]}

\* encoder readings: a position for the axes, or no answer from the controllers
\* nt_encoderPosition(j + 1, &enc): whether the motor answered, and the position
EncInputs == BOOLEAN
EncReading(ok) == [j \in Axes |-> [ok |-> ok, value |-> 0]]
NoEnc == FALSE

Abs(x) == IF x < 0 THEN -x ELSE x
Min(a, b) == IF a < b THEN a ELSE b

(***************************************************************************)
(* Persistent store (mem.cpp) and buffer (motion.cpp)                      *)
(***************************************************************************)
\* mem_init: validity check of the configuration read from EEPROM
mem_init(cfgMem) ==
    IF cfgMem.active_axes = 65535 \/ cfgMem.num_keyframes >= MAX_KEYFRAMES
    THEN [cfgMem EXCEPT !.active_axes = 4, !.num_keyframes = 0]
    ELSE cfgMem

\* motion_loadSequence: copy the first num_keyframes stored frames into buf
motion_loadSequence(cfg, buf, kfMem) ==
    [i \in KfSlots |-> IF i < cfg.num_keyframes THEN kfMem[i] ELSE buf[i]]

\* motion_writeToBuffer
motion_writeToBuffer(buf, index, kf) ==
    IF index >= MAX_KEYFRAMES THEN buf
    ELSE [i \in KfSlots |-> IF i = index THEN kf ELSE buf[i]]

\* motion_commit, keyframe part: mem_saveKeyframe(i, g_buffer[i]) for i < num_keyframes.
\* Frames with i >= MAX_KEYFRAMES lie outside both arrays; their writes land
\* behind g_keyframe_memory and are not part of the modelled store.
motion_commit(cfg, buf, kfMem) ==
    [i \in KfSlots |-> IF i < cfg.num_keyframes THEN buf[i] ELSE kfMem[i]]

\* executeOutputCommand
executeOutputCommand(out, cmd) ==
    IF cmd = OC_SET THEN TRUE ELSE IF cmd = OC_RESET THEN FALSE ELSE out

\* motion_keyframeReached with encoder readings enc
motion_keyframeReached(kf, enc, cfg) ==
    LET read  == {j \in Axes : j < cfg.active_axes /\ enc[j].ok}
        diffs == {Abs(kf.ticks[j] - NT_POSITION_BIAS - enc[j].value) : j \in read}
    IN  \E d \in diffs : (\A e \in diffs : e <= d) /\ d < 50

\* g_buffer[i]; the sequencer stays within the tracked slots (MaxPlayKf)
BufferAt(buf, i) == IF i \in KfSlots THEN buf[i] ELSE ZeroKeyframe

(***************************************************************************)
(* Command dispatcher (commands.cpp)                                       *)
(***************************************************************************)
\* variant: SAVE_KEYFRAME guarded by the payload length only
SaveKeyframeRejected_mut(p) == p.length # SIZEOF_SaveKeyframe

\* guard of the SAVE_KEYFRAME case: the packet is dropped without a reply
SaveKeyframeRejected(p) == p.length # SIZEOF_SaveKeyframe \/ g_isPlaying

\* guard of the CONFIG case
ConfigRejected(p) == g_isPlaying

\* motion_isInStartPosition: compares the stored keyframe 0 with the encoders
motion_isInStartPosition(cfg, enc) ==
    motion_keyframeReached(g_keyframe_memory[0], enc, cfg)

\* values left behind by handleCommand(p) when nothing is touched
Untouched ==
    [cfg |-> mem_config, buf |-> g_buffer, cfgMem |-> g_config_memory,
     kfMem |-> g_keyframe_memory, stop |-> g_shouldStop, quit |-> g_extShouldQuit,
     out |-> output, tx |-> <<>>, jump |-> "none"]

Reply(r, c) == [r EXCEPT !.tx = <<c>>]

\* handleCommand(command, payload, length); enc are the encoder readings taken
\* by the calls it makes
handleCommand(p, enc) ==
    CASE p.command = CMD_INIT -> Reply(Untouched, CMD_INIT)
      [] p.command = CMD_EXIT -> [Reply(Untouched, CMD_EXIT) EXCEPT !.quit = TRUE]
      [] p.command = CMD_SAVE_KEYFRAME ->
            IF SaveKeyframeRejected(p) THEN Untouched
            ELSE [Reply(Untouched, CMD_SAVE_KEYFRAME) EXCEPT
                    !.buf = motion_writeToBuffer(g_buffer, p.index, p.keyframe)]
      [] p.command = CMD_READ_KEYFRAME ->
            IF p.length # SIZEOF_ReadKeyframe THEN Untouched
            ELSE Reply(Untouched, CMD_READ_KEYFRAME)
      [] p.command = CMD_CONFIG ->
            IF ConfigRejected(p) THEN Untouched
            ELSE IF p.length = SIZEOF_Config
                 THEN [Reply(Untouched, CMD_CONFIG) EXCEPT
                         !.cfg = p.config,
                         !.out = IF motion_isInStartPosition(p.config, enc)
                                 THEN executeOutputCommand(output, g_keyframe_memory[0].output_command)
                                 ELSE output]
                 ELSE IF p.length = 0 THEN Reply(Untouched, CMD_CONFIG)
                 ELSE Untouched
      [] p.command = CMD_RESET ->
            IF p.keyok THEN [Untouched EXCEPT !.jump = "boot"] ELSE Untouched
      [] p.command = CMD_COMMIT ->
            [Reply(Untouched, CMD_COMMIT) EXCEPT
                    !.kfMem = motion_commit(mem_config, g_buffer, g_keyframe_memory),
                    !.cfgMem = mem_config]
      [] p.command = CMD_PLAY ->
            IF ~g_isPlaying THEN [Reply(Untouched, CMD_PLAY) EXCEPT !.jump = "play"]
            ELSE Reply(Untouched, CMD_PLAY)
      [] p.command = CMD_STOP -> [Reply(Untouched, CMD_STOP) EXCEPT !.stop = TRUE]
      [] p.command = CMD_MOTION ->
            [Reply(Untouched, CMD_MOTION) EXCEPT !.out = executeOutputCommand(output, p.oc)]
      [] p.command = CMD_FEEDBACK -> Reply(Untouched, CMD_FEEDBACK)
      [] OTHER -> Untouched

\* what is recorded about a dispatched packet
Observed(p) == [command |-> p.command, length |-> p.length, playing |-> g_isPlaying]
NoneObserved == [command |-> CMD_COUNT, length |-> 0, playing |-> FALSE]

(***************************************************************************)
(* Sequencer control flow (motion_runSequence)                             *)
(***************************************************************************)
\* variant: the closing segment is run without looping as well
HasSegment_mut(i, lp, cfg) == i < cfg.num_keyframes

\* the for loop enters its body for index i: "i < mem_config.num_keyframes"
\* and not "if(i == mem_config.num_keyframes-1 && !loop) break;"
HasSegment(i, lp, cfg) ==
    i < cfg.num_keyframes /\ ~(i = cfg.num_keyframes - 1 /\ ~lp)

Returned == [pc |-> "dispatch", i |-> 0, lp |-> FALSE]

\* top of the do-while: loop = force_loop, then the for loop from i = 1.
\* Without a segment and with force_loop the do-while repeats without ever
\* polling the command buffer.
EnterDo(fl, cfg) ==
    IF HasSegment(1, fl, cfg) THEN [pc |-> "segment", i |-> 1, lp |-> fl]
    ELSE IF fl THEN [pc |-> "spin", i |-> 1, lp |-> fl]
    ELSE Returned

\* condition of the do-while
DoWhile(lp, stop, fl, cfg) ==
    IF lp /\ ~stop THEN EnterDo(fl, cfg) ELSE Returned

\* the for loop is left: synchronise if looping by button, then the do-while test
SyncWanted(lp, fl, stop) == lp /\ ~fl

AfterFor(lp, stop, fl, cfg) ==
    IF SyncWanted(lp, fl, stop) THEN [pc |-> "sync", i |-> 0, lp |-> lp]
    ELSE DoWhile(lp, stop, fl, cfg)

\* the for loop advances to index i (uint8_t)
ForHead(i, lp, stop, fl, cfg) ==
    IF HasSegment(i, lp, cfg) THEN [pc |-> "segment", i |-> i, lp |-> lp]
    ELSE AfterFor(lp, stop, fl, cfg)

\* the look-ahead while loop of one axis: walks the keyframes from index k
\* while delta exceeds the duration.  Result: "loop" if it set loop = true,
\* "none" if not, "hang" if it never terminates (fuel exhausted).
\* variant: the look-ahead goes on with the start frame
NextFrame_mut(k, cfg) == IF k = cfg.num_keyframes - 1 THEN 0 ELSE k + 1

\* the look-ahead while loop: "if(k == num_keyframes-1) { k = 1; c =
\* &g_buffer[1]; } else { ++k; ++c; }"
NextFrame(k, cfg) == IF k = cfg.num_keyframes - 1 THEN 1 ELSE k + 1

RECURSIVE LookAhead(_, _, _, _, _, _, _)
LookAhead(k, delta, set, button, fl, cfg, fuel) ==
    LET c == BufferAt(g_buffer, k)
    IN  IF ~(delta > c.duration) THEN (IF set THEN "loop" ELSE "none")
        ELSE IF k = cfg.num_keyframes - 2 /\ ~(button \/ fl)
             THEN (IF set THEN "loop" ELSE "none")
        ELSE IF fuel = 0 THEN "hang"
        ELSE LookAhead(NextFrame(k, cfg),
                       delta - c.duration,
                       set \/ k = cfg.num_keyframes - 2,
                       button, fl, cfg, fuel - 1)

\* the frames the look-ahead while loop takes as c, from index k on
RECURSIVE LookAheadWindow(_, _, _, _, _, _)
LookAheadWindow(k, delta, button, fl, cfg, fuel) ==
    LET c == BufferAt(g_buffer, k)
    IN  IF ~(delta > c.duration) THEN <<k>>
        ELSE IF k = cfg.num_keyframes - 2 /\ ~(button \/ fl) THEN <<k>>
        ELSE IF fuel = 0 THEN <<k>>
        ELSE <<k>> \o LookAheadWindow(NextFrame(k, cfg), delta - c.duration,
                                      button, fl, cfg, fuel - 1)

\* enough steps for delta to be used up on any cycle that contains a frame
\* of non-zero duration
LookAheadFuel(delta, cfg) == (delta + 1) * (cfg.num_keyframes + 1)

(***************************************************************************)
(* Device actions                                                          *)
(***************************************************************************)
\* the part of the state handleCommand can touch
ApplyCommand(p, r, rec) ==
    /\ mem_config' = r.cfg
    /\ g_buffer' = r.buf
    /\ g_config_memory' = r.cfgMem
    /\ g_keyframe_memory' = r.kfMem
    /\ g_extShouldQuit' = r.quit
    /\ rxCmd' = IF rec THEN Observed(p) ELSE NoneObserved
    /\ txLog' = IF rec THEN r.tx ELSE <<>>

NoCommand ==
    UNCHANGED <<mem_config, g_buffer, g_config_memory, g_keyframe_memory,
                g_extShouldQuit, rxCmd, txLog>>

\* resetTimer(dest)
ResetTimer(dest) ==
    /\ g_remaining' = dest
    /\ g_delta' = 0
    /\ g_reached' = FALSE

\* continue motion_runSequence at the control point ctl
Goto(ctl) ==
    /\ devPc' = ctl.pc
    /\ seg_i' = ctl.i
    /\ loop' = ctl.lp
    /\ safety_counter' = 0
    /\ sync_counter' = 0
    /\ IF ctl.pc = "segment"
       THEN ResetTimer(BufferAt(g_buffer', ctl.i).duration)
       ELSE UNCHANGED <<g_remaining, g_delta, g_reached>>
    /\ IF ctl.pc = "dispatch"
       THEN g_isPlaying' = FALSE /\ force_loop' = FALSE
       ELSE g_isPlaying' = TRUE /\ UNCHANGED force_loop

\* jump into the bootloader (RESET with the right key)
EnterBootloader ==
    /\ devPc' = "bootloader"
    /\ UNCHANGED <<g_isPlaying, g_shouldStop, g_reached, g_delta, g_remaining, seg_i, loop,
                   force_loop, safety_counter, sync_counter, output>>

\* main(): start-up after reset
Boot ==
    /\ devPc = "bootloader"
    /\ mem_config' = mem_init(g_config_memory)
    /\ g_buffer' = motion_loadSequence(mem_init(g_config_memory),
                                       [i \in KfSlots |-> ZeroKeyframe], g_keyframe_memory)
    /\ g_isPlaying' = FALSE
    /\ g_shouldStop' = FALSE
    /\ g_reached' = FALSE
    /\ g_delta' = 0
    /\ g_remaining' = 0
    /\ g_extShouldQuit' = FALSE
    /\ devPc' = "passthrough"
    /\ seg_i' = 0
    /\ loop' = FALSE
    /\ force_loop' = FALSE
    /\ safety_counter' = 0
    /\ sync_counter' = 0
    /\ output' = FALSE
    /\ rxCmd' = NoneObserved
    /\ txLog' = <<>>
    /\ UNCHANGED <<g_config_memory, g_keyframe_memory>>
    /\ UNCHANGED <<hostVars, editVars, serialVars>>

\* main(): the passthrough matcher has seen a complete INIT packet
PassthroughInitBody(rec) ==
    /\ devPc = "passthrough"
    /\ ApplyCommand(Packet(CMD_INIT, 0), handleCommand(Packet(CMD_INIT, 0), EncReading(NoEnc)), rec)
    /\ devPc' = "dispatch"
    /\ UNCHANGED <<g_isPlaying, g_shouldStop, g_reached, g_delta, g_remaining, seg_i, loop,
                   force_loop, safety_counter, sync_counter, output>>

PassthroughInit(rec) ==
    /\ PassthroughInitBody(rec)
    /\ UNCHANGED <<hostVars, editVars, serialVars>>

\* motion_runSequence(fl) up to its first loop; out is the output state on
\* entry, enc the encoder readings of motion_isInStartPosition
RunSequenceStart(fl, out, enc) ==
    /\ g_shouldStop' = FALSE
    /\ IF motion_isInStartPosition(mem_config', enc)
       THEN /\ output' = executeOutputCommand(
                            executeOutputCommand(out, g_keyframe_memory'[0].output_command),
                            g_buffer'[0].output_command)
            /\ LET ctl == EnterDo(fl, mem_config')
               IN  /\ devPc' = ctl.pc
                   /\ seg_i' = ctl.i
                   /\ loop' = ctl.lp
                   /\ g_isPlaying' = (ctl.pc # "dispatch")
                   /\ force_loop' = (fl /\ ctl.pc # "dispatch")
                   /\ IF ctl.pc = "segment"
                      THEN ResetTimer(BufferAt(g_buffer', ctl.i).duration)
                      ELSE UNCHANGED <<g_remaining, g_delta, g_reached>>
       ELSE /\ output' = out
            /\ devPc' = "startkf"
            /\ g_isPlaying' = TRUE
            /\ force_loop' = fl
            /\ seg_i' = 0
            /\ loop' = FALSE
            /\ ResetTimer(START_TIMEOUT)
    /\ safety_counter' = 0
    /\ sync_counter' = 0

\* handleCommand called from handleCommands() with a packet, and what
\* follows from it in the firmware
DispatchBody(p, enc, rec) ==
    /\ devPc = "dispatch"
    /\ p.command = CMD_PLAY => mem_config.num_keyframes <= MaxPlayKf
    /\ LET r == handleCommand(p, enc)
       IN  /\ ApplyCommand(p, r, rec)
           /\ CASE r.jump = "boot" -> EnterBootloader
                [] r.jump = "play" ->
                        RunSequenceStart(p.flags % 2 = PF_LOOP, r.out, enc)
                [] OTHER ->
                        /\ g_shouldStop' = r.stop
                        /\ output' = r.out
                        /\ UNCHANGED <<devPc, g_isPlaying, g_reached, g_delta, g_remaining,
                                       seg_i, loop, force_loop, safety_counter, sync_counter>>

\* handleCommands(): one packet is parsed and dispatched
Dispatch(p, enc, rec) ==
    /\ DispatchBody(p, enc, rec)
    /\ UNCHANGED <<hostVars, editVars, serialVars>>

\* handleCommands(): g_extShouldQuit ends the loop
DispatchQuit ==
    /\ devPc = "dispatch"
    /\ g_extShouldQuit
    /\ g_extShouldQuit' = FALSE
    /\ devPc' = "passthrough"
    /\ UNCHANGED <<mem_config, g_buffer, g_isPlaying, g_shouldStop, g_reached, g_delta,
                   g_remaining, g_config_memory, g_keyframe_memory, seg_i, loop, force_loop,
                   safety_counter, sync_counter, output, rxCmd, txLog>>
    /\ UNCHANGED <<hostVars, editVars, serialVars>>

\* handleCommands(): 255 idle milliseconds without a packet end the loop
DispatchIdleTimeout ==
    /\ devPc = "dispatch"
    /\ ~g_extShouldQuit
    /\ devPc' = "passthrough"
    /\ UNCHANGED <<mem_config, g_buffer, g_isPlaying, g_shouldStop, g_reached, g_delta,
                   g_remaining, g_extShouldQuit, g_config_memory, g_keyframe_memory, seg_i,
                   loop, force_loop, safety_counter, sync_counter, output, rxCmd, txLog>>
    /\ UNCHANGED <<hostVars, editVars, serialVars>>

\* the "while(com_buf_to_bot.available())" poll inside the sequencer loops:
\* at most one packet is dispatched per iteration
Poll(p, enc, rec) ==
    IF p = NoPacket
    THEN NoCommand /\ UNCHANGED <<g_shouldStop, output, devPc>>
    ELSE LET r == handleCommand(p, enc)
         IN  /\ ApplyCommand(p, r, rec)
             /\ g_shouldStop' = r.stop
             /\ output' = r.out
             /\ devPc' = IF r.jump = "boot" THEN "bootloader" ELSE devPc

\* ISR(TIMER1_COMPA_vect).  The ticks are taken one by one within MaxDuration
\* of the deadline and in one jump to the deadline before that.
TickInputs == IF g_remaining > MaxDuration THEN {g_remaining} ELSE {1}

TimerISR(dt) ==
    /\ devPc \in {"startkf", "segment"}
    /\ ~g_reached
    /\ g_delta' = Min(g_delta + dt, MaxDuration)
    /\ g_remaining' = IF g_remaining > dt THEN g_remaining - dt ELSE 0
    /\ g_reached' = (g_remaining' = 0)
    /\ UNCHANGED <<mem_config, g_buffer, g_isPlaying, g_shouldStop, g_extShouldQuit,
                   g_config_memory, g_keyframe_memory, devPc, seg_i, loop, force_loop,
                   safety_counter, sync_counter, output, rxCmd, txLog>>
    /\ UNCHANGED <<hostVars, editVars, serialVars>>

\* motion_doStartKeyframe(): one iteration of its while loop
\* variant: a miss leaves the count as it is
SafetyCount_mut(reached, n) == IF reached THEN n + 1 ELSE n

\* motion_doStartKeyframe(): "if(reached) ++safety_counter ... else
\* safety_counter = 0"
SafetyCount(reached, n) == IF reached THEN n + 1 ELSE 0

StartKfIterBody(enc, p, encP, rec) ==
    /\ devPc = "startkf"
    /\ ~g_reached /\ ~g_shouldStop
    /\ IF SafetyCount(motion_keyframeReached(g_buffer[0], enc, mem_config), safety_counter)
              = SAFETY_COUNT
       THEN \* return true; motion_runSequence goes on to its do-while
            /\ NoCommand
            /\ g_shouldStop' = FALSE
            /\ output' = executeOutputCommand(
                            executeOutputCommand(output, g_buffer[0].output_command),
                            g_buffer[0].output_command)
            /\ Goto(EnterDo(force_loop, mem_config))
       ELSE /\ safety_counter' =
                   SafetyCount(motion_keyframeReached(g_buffer[0], enc, mem_config),
                               safety_counter)
            /\ Poll(p, encP, rec)
            /\ UNCHANGED <<g_isPlaying, g_reached, g_delta, g_remaining, seg_i, loop,
                           force_loop, sync_counter>>

StartKfIter(enc, p, encP, rec) ==
    /\ StartKfIterBody(enc, p, encP, rec)
    /\ UNCHANGED <<hostVars, editVars, serialVars>>

\* motion_doStartKeyframe(): deadline passed or stop requested, return false
StartKfFailBody ==
    /\ devPc = "startkf"
    /\ g_reached \/ g_shouldStop
    /\ g_shouldStop' = TRUE
    /\ UNCHANGED <<mem_config, g_buffer, g_extShouldQuit, g_config_memory,
                   g_keyframe_memory, output, rxCmd, txLog>>
    /\ Goto(Returned)

StartKfFail ==
    /\ StartKfFailBody
    /\ UNCHANGED <<hostVars, editVars, serialVars>>

\* motion_runSequence(): one iteration of the inner while loop of a segment
SegmentIter(button, p, enc, rec) ==
    /\ devPc = "segment"
    /\ ~g_reached /\ ~g_shouldStop
    /\ LET delta == g_delta + mem_config.lookahead
           la == IF mem_config.active_axes = 0 THEN "none"
                 ELSE LookAhead(seg_i, delta, FALSE, button, force_loop, mem_config,
                                LookAheadFuel(delta, mem_config))
       IN  IF la = "hang"
           THEN /\ devPc' = "hang"
                /\ NoCommand
                /\ UNCHANGED <<g_shouldStop, output, loop>>
           ELSE /\ loop' = (loop \/ la = "loop")
                /\ Poll(p, enc, rec)
    /\ UNCHANGED <<g_isPlaying, g_reached, g_delta, g_remaining, seg_i, force_loop,
                   safety_counter, sync_counter>>
    /\ UNCHANGED <<hostVars, editVars, serialVars>>

\* motion_runSequence(): the segment's inner loop is left
SegmentEnd ==
    /\ devPc = "segment"
    /\ g_reached \/ g_shouldStop
    /\ UNCHANGED <<mem_config, g_buffer, g_shouldStop, g_extShouldQuit, g_config_memory,
                   g_keyframe_memory, rxCmd, txLog>>
    /\ IF g_shouldStop
       THEN /\ Goto(AfterFor(loop, TRUE, force_loop, mem_config))
            /\ UNCHANGED output
       ELSE /\ output' = executeOutputCommand(output, BufferAt(g_buffer, seg_i).output_command)
            /\ Goto(ForHead((seg_i + 1) % 256, loop, FALSE, force_loop, mem_config))
    /\ UNCHANGED <<hostVars, editVars, serialVars>>

\* io_synchronize(): one sample of the sync line
SyncPoll(high) ==
    /\ devPc = "sync"
    /\ UNCHANGED <<mem_config, g_buffer, g_shouldStop, g_extShouldQuit, g_config_memory,
                   g_keyframe_memory, output, rxCmd, txLog>>
    /\ IF high /\ sync_counter + 1 > SYNC_COUNT
       THEN Goto(DoWhile(loop, g_shouldStop, force_loop, mem_config))
       ELSE /\ sync_counter' = IF high THEN sync_counter + 1 ELSE 0
            /\ UNCHANGED <<devPc, seg_i, loop, safety_counter, g_remaining, g_delta,
                           g_reached, g_isPlaying, force_loop>>
    /\ UNCHANGED <<hostVars, editVars, serialVars>>

DevInitAt(pc) ==
    /\ g_config_memory = EepromImageConfig
    /\ g_keyframe_memory = [i \in KfSlots |-> ZeroKeyframe]
    /\ mem_config = mem_init(EepromImageConfig)
    /\ g_buffer = [i \in KfSlots |-> ZeroKeyframe]
    /\ g_isPlaying = FALSE
    /\ g_shouldStop = FALSE
    /\ g_reached = FALSE
    /\ g_delta = 0
    /\ g_remaining = 0
    /\ g_extShouldQuit = FALSE
    /\ devPc = pc
    /\ seg_i = 0
    /\ loop = FALSE
    /\ force_loop = FALSE
    /\ safety_counter = 0
    /\ sync_counter = 0
    /\ output = FALSE
    /\ rxCmd = NoneObserved
    /\ txLog = <<>>

\* main() has started and waits in the passthrough
DevInit == DevInitAt("passthrough")

\* the device with the packets PK sent by the host; rec: the replies to
\* the last dispatched packet are recorded in rxCmd / txLog.  At devPc "spin"
\* (the do-while repeating with an empty for loop) and "hang" (the look-ahead
\* while loop not terminating) the firmware takes no further step.
DevNext(PK, rec) ==
    \/ Boot
    \/ PassthroughInit(rec)
    \/ \E p \in PK, e \in EncInputs : Dispatch(p, EncReading(e), rec)
    \/ DispatchQuit
    \/ DispatchIdleTimeout
    \/ \E dt \in TickInputs : TimerISR(dt)
    \/ \E e \in EncInputs, p \in PK \cup {NoPacket} :
            StartKfIter(EncReading(e), p, EncReading(NoEnc), rec)
    \/ StartKfFail
    \/ \E b \in BOOLEAN, p \in PK \cup {NoPacket} : SegmentIter(b, p, EncReading(NoEnc), rec)
    \/ SegmentEnd
    \/ \E h \in BOOLEAN : SyncPoll(h)

(***************************************************************************)
(* Device: serial line to the host, packet decoder, passthrough            *)
(***************************************************************************)
VERSION == 10
PAYLOAD_BUFSIZE == 256
BUFSIZE == 256
PS_START == 0
PS_VERSION == 1
PS_COMMAND == 2
PS_LENGTH == 3
PS_PAYLOAD == 4
PS_CHECKSUM == 5
PS_END == 6
\* handleCommands leaves its loop when ticks_since_last_msg reaches this value
IDLE_LIMIT == 255

\* payloads of the packets that are followed byte by byte
MaxPayloadLen == 2
\* bytes that wait in com_buf_to_bot when one more byte arrives
MaxPending == 1
\* bytes the host sends, and the bus delivers, while the device passes through
MaxHostBytes == 6
MaxBusBytes == 1

ToUint8(x) == x % 256

\* proto::RESET_KEY
RESET_KEY == <<10, 101, 56, 71, 130, 171, 191, 0>>

RECURSIVE SumPayload(_)
SumPayload(pl) == IF pl = <<>> THEN 0 ELSE Head(pl) + SumPayload(Tail(pl))

\* proto::packetChecksum, without the protocol version in the sum
packetChecksum_mut(cmd, len, payload) ==
    255 - ToUint8(cmd + len + SumPayload(payload))

\* proto::packetChecksum for a header with this command and length (uint8_t)
packetChecksum(cmd, len, payload) ==
    255 - ToUint8(cmd + VERSION + len + SumPayload(payload))

\* proto::SimplePacket<Cmd> and proto::Packet<Cmd, Payload> after
\* updateChecksum(), as the bytes written to the line
EncodePacket(cmd, payload) ==
    <<255, VERSION, cmd, ToUint8(Len(payload))>> \o payload
        \o <<packetChecksum(cmd, ToUint8(Len(payload)), payload), 13>>

\* initPacket of main()
initPacket == EncodePacket(CMD_INIT, <<>>)

\* CircularBuffer::put: a byte that finds the buffer full is dropped
put(buf, c) == IF Len(buf) < BUFSIZE - 1 THEN Append(buf, c) ELSE buf

RECURSIVE putData(_, _)
putData(buf, data) ==
    IF data = <<>> THEN buf ELSE putData(put(buf, Head(data)), Tail(data))

\* the globals of the parser
Parser ==
    [parser_state |-> parser_state, command |-> command, payloadLength |-> payloadLength,
     payloadIdx |-> payloadIdx, payloadBuffer |-> payloadBuffer]

Parser0 ==
    [parser_state |-> PS_START, command |-> 0, payloadLength |-> 0, payloadIdx |-> 0,
     payloadBuffer |-> [i \in 0 .. PAYLOAD_BUFSIZE - 1 |-> 0]]

\* the first n bytes of the payload buffer
RECURSIVE PayloadBytes(_, _)
PayloadBytes(buf, n) ==
    IF n = 0 THEN <<>> ELSE Append(PayloadBytes(buf, n - 1), buf[n - 1])

\* cmd_input, case PS_CHECKSUM, with every checksum accepted
ChecksumMatches_mut(ps, c) == TRUE

\* cmd_input, case PS_CHECKSUM: the sum is kept in a uint8_t
ChecksumMatches(ps, c) ==
    255 - ToUint8(VERSION + ps.command + ps.payloadLength
                    + SumPayload(PayloadBytes(ps.payloadBuffer, ps.payloadLength))) = c

\* cmd_input(c): the parser after the byte, and whether handleCommand was
\* called (the return value)
cmd_input(ps, c) ==
    CASE ps.parser_state = PS_START ->
            [ps |-> [ps EXCEPT !.payloadIdx = 0,
                               !.parser_state = IF c = 255 THEN PS_VERSION ELSE @],
             dispatch |-> FALSE]
      [] ps.parser_state = PS_VERSION ->
            [ps |-> [ps EXCEPT !.parser_state = IF c = VERSION THEN PS_COMMAND ELSE PS_START],
             dispatch |-> FALSE]
      [] ps.parser_state = PS_COMMAND ->
            [ps |-> [ps EXCEPT !.command = c,
                               !.parser_state = IF c < CMD_COUNT THEN PS_LENGTH ELSE PS_START],
             dispatch |-> FALSE]
      [] ps.parser_state = PS_LENGTH ->
            [ps |-> [ps EXCEPT !.payloadLength = c,
                               !.parser_state = IF c # 0 THEN PS_PAYLOAD ELSE PS_CHECKSUM],
             dispatch |-> FALSE]
      [] ps.parser_state = PS_PAYLOAD ->
            [ps |-> [ps EXCEPT !.payloadBuffer[ps.payloadIdx] = c,
                               !.payloadIdx = ToUint8(@ + 1),
                               !.parser_state = IF ToUint8(ps.payloadIdx + 1) = ps.payloadLength
                                                THEN PS_CHECKSUM ELSE @],
             dispatch |-> FALSE]
      [] ps.parser_state = PS_CHECKSUM ->
            [ps |-> [ps EXCEPT !.parser_state = IF ChecksumMatches(ps, c)
                                                THEN PS_END ELSE PS_START],
             dispatch |-> FALSE]
      [] ps.parser_state = PS_END ->
            [ps |-> [ps EXCEPT !.parser_state = PS_START], dispatch |-> c = 13]
      [] OTHER ->
            [ps |-> [ps EXCEPT !.parser_state = PS_START], dispatch |-> FALSE]

\* the packet handleCommand(command, payloadBuffer, payloadLength) sees: the
\* casts of the payload pointer read the buffer whatever the length is.
\* Payloads of sizeof(Config) and sizeof(SaveKeyframe) bytes are longer than
\* MaxPayloadLen; their fields are not decoded.
PacketOf(ps) ==
    [Packet(ps.command, ps.payloadLength) EXCEPT
        !.index = ps.payloadBuffer[0],
        !.flags = ps.payloadBuffer[0],
        !.oc = ps.payloadBuffer[4 * NUM_AXES + 1],
        !.keyok = \A i \in 1 .. Len(RESET_KEY) : ps.payloadBuffer[i - 1] = RESET_KEY[i]]

\* what is recorded about a call of handleCommand by cmd_input
Decoded(ps) ==
    [command |-> ps.command, length |-> ps.payloadLength,
     payload |-> PayloadBytes(ps.payloadBuffer, ps.payloadLength)]
NoDispatch == [command |-> CMD_COUNT, length |-> 0, payload |-> <<>>]

\* a counter that is followed up to 2
Counted(n) == Min(n + 1, 2)

\* g_passthrough: false in the extended mode and while the button runs a sequence
g_passthrough == devPc = "passthrough"

\* ISR(USART0_RX_vect): a byte from the host
UsartRx(c) ==
    /\ Len(com_buf_to_bot) < MaxPending
    /\ g_passthrough => Len(hostLog) < MaxHostBytes
    /\ com_buf_to_bot' = put(com_buf_to_bot, c)
    /\ hostLog' = IF g_passthrough THEN Append(hostLog, c) ELSE hostLog
    /\ UNCHANGED <<parserVars, ticks_since_last_msg, passVars, rxTrace, decoded,
                   dispatchCount, busLog, initCount>>
    /\ UNCHANGED <<devVars, hostVars, editVars>>

\* the host writes a whole packet while the device is in the extended mode
HostWrites(bytes) ==
    /\ devPc = "dispatch"
    /\ com_buf_to_bot = <<>>
    /\ com_buf_to_bot' = putData(com_buf_to_bot, bytes)
    /\ UNCHANGED <<parserVars, ticks_since_last_msg, passVars, serialLogs>>
    /\ UNCHANGED <<devVars, hostVars, editVars>>

\* ISR(USART3_RX_vect): a byte from the bus
Usart3Rx(c) ==
    /\ g_passthrough
    /\ Len(busLog) < MaxBusBytes
    /\ busLog' = Append(busLog, c)
    /\ com_buf_to_pc' = IF c = 0 THEN com_buf_to_pc ELSE put(com_buf_to_pc, c)
    /\ UNCHANGED <<com_buf_to_bot, parserVars, ticks_since_last_msg, mainPc, offset, uart_rob,
                   uart_pc, rxTrace, decoded, dispatchCount, hostLog, initCount>>
    /\ UNCHANGED <<devVars, hostVars, editVars>>

\* ISR(USART0_UDRE_vect): the next queued byte goes to the host
Usart0Udre ==
    /\ com_buf_to_pc # <<>>
    /\ uart_pc' = Append(uart_pc, Head(com_buf_to_pc))
    /\ com_buf_to_pc' = Tail(com_buf_to_pc)
    /\ UNCHANGED <<com_buf_to_bot, parserVars, ticks_since_last_msg, mainPc, offset, uart_rob,
                   serialLogs>>
    /\ UNCHANGED <<devVars, hostVars, editVars>>

\* main(): a byte is available, the matcher starts with offset = 0
MainWake ==
    /\ g_passthrough
    /\ mainPc = "wait"
    /\ com_buf_to_bot # <<>>
    /\ mainPc' = "match"
    /\ offset' = 0
    /\ UNCHANGED <<com_buf_to_bot, parserVars, ticks_since_last_msg, uart_rob, com_buf_to_pc,
                   uart_pc, serialLogs>>
    /\ UNCHANGED <<devVars, hostVars, editVars>>

\* main(): only the byte that differs is written to the bus
Replay_mut(off, c) == <<c>>

\* main(): "Replay matched bytes til now", then the byte that differs
Replay(off, c) == SubSeq(initPacket, 1, off) \o <<c>>

\* main(): one pass of the do-while of the matcher.  With the whole pattern
\* matched the buffer is flushed, INIT answered and handleCommands entered.
\* rec: the bytes of the answer are followed to the line (writeAnswer waits
\* until com_buf_to_pc is sent)
MainMatchByteWith(rec) ==
    /\ g_passthrough
    /\ mainPc = "match"
    /\ com_buf_to_bot # <<>>
    /\ LET c == Head(com_buf_to_bot)
           matches == c = initPacket[offset + 1]
           off1 == IF matches THEN offset + 1 ELSE 0
       IN  /\ offset' = off1
           /\ uart_rob' = IF matches THEN uart_rob ELSE uart_rob \o Replay(offset, c)
           /\ IF off1 = Len(initPacket)
              THEN /\ com_buf_to_bot' = <<>>
                   /\ PassthroughInitBody(FALSE)
                   /\ ticks_since_last_msg' = 0
                   /\ initCount' = Counted(initCount)
              ELSE /\ com_buf_to_bot' = Tail(com_buf_to_bot)
                   /\ UNCHANGED <<devVars, ticks_since_last_msg, initCount>>
           /\ IF rec /\ off1 = Len(initPacket)
              THEN /\ uart_pc' = uart_pc \o putData(com_buf_to_pc, EncodePacket(CMD_INIT, <<>>))
                   /\ com_buf_to_pc' = <<>>
              ELSE UNCHANGED <<com_buf_to_pc, uart_pc>>
    /\ UNCHANGED <<parserVars, mainPc, rxTrace, decoded, dispatchCount, hostLog, busLog>>
    /\ UNCHANGED <<hostVars, editVars>>

MainMatchByte == MainMatchByteWith(FALSE)

\* main(): the buffer is empty, the do-while ends and with it the scope of offset
MainMatchEnd ==
    /\ g_passthrough
    /\ mainPc = "match"
    /\ com_buf_to_bot = <<>>
    /\ mainPc' = "wait"
    /\ offset' = 0
    /\ UNCHANGED <<com_buf_to_bot, parserVars, ticks_since_last_msg, uart_rob, com_buf_to_pc,
                   uart_pc, serialLogs>>
    /\ UNCHANGED <<devVars, hostVars, editVars>>

\* handleCommands(): every byte given to cmd_input clears the idle count
TicksAfterByte_mut(dispatched, ticks) == 0

\* handleCommands(): "if(cmd_input(c)) ticks_since_last_msg = 0;"
TicksAfterByte(dispatched, ticks) == IF dispatched THEN 0 ELSE ticks

\* handleCommands(): one byte is taken from the buffer and given to cmd_input
\* (a length byte above MaxPayloadLen is not followed)
HandleCommandsByte(enc) ==
    /\ devPc = "dispatch"
    /\ com_buf_to_bot # <<>>
    /\ parser_state = PS_LENGTH => Head(com_buf_to_bot) <= MaxPayloadLen
    /\ LET c == Head(com_buf_to_bot)
           r == cmd_input(Parser, c)
       IN  /\ com_buf_to_bot' = Tail(com_buf_to_bot)
           /\ parser_state' = r.ps.parser_state
           /\ command' = r.ps.command
           /\ payloadLength' = r.ps.payloadLength
           /\ payloadIdx' = r.ps.payloadIdx
           /\ payloadBuffer' = r.ps.payloadBuffer
           /\ rxTrace' = IF parser_state = PS_START THEN <<c>> ELSE Append(rxTrace, c)
           /\ decoded' = IF r.dispatch THEN Decoded(r.ps) ELSE NoDispatch
           /\ ticks_since_last_msg' = TicksAfterByte(r.dispatch, ticks_since_last_msg)
           /\ IF r.dispatch
              THEN /\ DispatchBody(PacketOf(r.ps), enc, FALSE)
                   /\ dispatchCount' = Counted(dispatchCount)
              ELSE UNCHANGED <<devVars, dispatchCount>>
    /\ UNCHANGED <<passVars, hostLog, busLog, initCount>>
    /\ UNCHANGED <<hostVars, editVars>>

\* The idle iterations of handleCommands: the last is taken alone, the ones
\* before it in one jump.
IdleSteps ==
    IF ticks_since_last_msg < IDLE_LIMIT - 1 /\ ~g_extShouldQuit
    THEN {IDLE_LIMIT - 1 - ticks_since_last_msg}
    ELSE {1}

\* handleCommands(): the buffer is empty; n times the delay of 1 ms and the
\* increment of ticks_since_last_msg.  When the loop is left main() flushes
\* the buffer and waits for the next byte.
HandleCommandsTick(n) ==
    /\ devPc = "dispatch"
    /\ com_buf_to_bot = <<>>
    /\ IF ToUint8(ticks_since_last_msg + n) = IDLE_LIMIT \/ g_extShouldQuit
       THEN /\ devPc' = "passthrough"
            /\ g_extShouldQuit' = FALSE
            /\ ticks_since_last_msg' = 0
            /\ mainPc' = "wait"
            /\ offset' = 0
       ELSE /\ ticks_since_last_msg' = ToUint8(ticks_since_last_msg + n)
            /\ UNCHANGED <<devPc, g_extShouldQuit, mainPc, offset>>
    /\ UNCHANGED <<com_buf_to_bot, parserVars, uart_rob, com_buf_to_pc, uart_pc, serialLogs>>
    /\ UNCHANGED <<mem_config, g_buffer, g_isPlaying, g_shouldStop, g_reached, g_delta,
                   g_remaining, g_config_memory, g_keyframe_memory, seg_i, loop, force_loop,
                   safety_counter, sync_counter, output, rxCmd, txLog>>
    /\ UNCHANGED <<hostVars, editVars>>

\* the serial line with the bytes the host has written so far
SerialInitWith(bytes) ==
    /\ com_buf_to_bot = bytes
    /\ parser_state = Parser0.parser_state
    /\ command = Parser0.command
    /\ payloadLength = Parser0.payloadLength
    /\ payloadIdx = Parser0.payloadIdx
    /\ payloadBuffer = Parser0.payloadBuffer
    /\ ticks_since_last_msg = 0
    /\ mainPc = "wait"
    /\ offset = 0
    /\ uart_rob = <<>>
    /\ com_buf_to_pc = <<>>
    /\ uart_pc = <<>>
    /\ rxTrace = <<>>
    /\ decoded = NoDispatch
    /\ dispatchCount = 0
    /\ hostLog = bytes
    /\ busLog = <<>>
    /\ initCount = 0

SerialInit == SerialInitWith(<<>>)

(***************************************************************************)
(* Host: joint configuration and unit conversions                          *)
(***************************************************************************)
\* maximum speed of the servos in rad per second
SERVOSPEEDMAX == 4

\* The joint configuration file describes one joint.  Angles, limits and the
\* offset are counted in milliradians, joint velocities in milliradians per
\* second, times in microseconds.
Joint == [address |-> 1, invert |-> FALSE, offset |-> 0, encoder_steps_per_turn |-> 4096,
          motor_steps_per_turn |-> 3600, lower_limit |-> -1000, upper_limit |-> 1000]
\* global/lookahead of the configuration file (its default)
m_lookahead == 200
\* 2 * M_PI in milliradians
TwoPiMilli == 6283

hardwareCompliance == 0
noCompliance == 1

qMax(a, b) == IF a < b THEN b ELSE a

\* qBound(min, val, max)
qBound(mn, v, mx) == qMax(mn, Min(mx, v))

\* qRound(n / m) for m > 0
qRound(n, m) == (2 * n + m) \div (2 * m)

\* assignment to a uint16_t field
ToUint16(x) == x % 65536

\* qRound((sgn * angle + offset) / enc_to_rad) + NT_POSITION_BIAS with
\* enc_to_rad = 2 * M_PI / encoder_steps_per_turn
TicksOf(angle) ==
    LET sgn == IF Joint.invert THEN -1 ELSE 1
    IN  ToUint16(qRound((sgn * angle + Joint.offset) * Joint.encoder_steps_per_turn,
                        TwoPiMilli)
                 + NT_POSITION_BIAS)

\* qMax(1, qAbs(qRound(velocity / mot_to_rad))) with
\* mot_to_rad = 2 * M_PI / motor_steps_per_turn, stored into a uint16_t
VelocityOf(v) ==
    ToUint16(qMax(1, Abs(qRound(v * Joint.motor_steps_per_turn, TwoPiMilli))))

\* sgn * (ticks * enc_to_rad - offset): the joint angle of a feedback position
FeedbackAngle(ticks) ==
    LET sgn == IF Joint.invert THEN -1 ELSE 1
    IN  sgn * ((ticks * TwoPiMilli) \div Joint.encoder_steps_per_turn - Joint.offset)

\* 1.0 * M_PI / 180.0 / mot_to_rad, the velocity set when a playback is over
PlaybackEndVelocity == (1000 * Joint.motor_steps_per_turn) \div 360

\* variant: the target angle is converted as it is
LimitTarget_mut(a) == a

\* handle_extendedMode: the target angle is limited to protect the joint limits
LimitTarget(a) == qBound(Joint.lower_limit, a, Joint.upper_limit)

\* the MOTION packet built from the target angle a and the joint velocity v
MotionPacket(a, v) ==
    [angle |-> a, jointVelocity |-> v, ticks |-> TicksOf(a), velocity |-> VelocityOf(v)]
NoMotion == [angle |-> 0, jointVelocity |-> 0, ticks |-> 0, velocity |-> 0]

(***************************************************************************)
(* Host: RobotInterface (transport thread)                                 *)
(***************************************************************************)
TIMEOUT == 10
PORTCYCLE == 15
KC_COMMIT == 0
KC_PLAY == 1
KC_LOOP == 2
\* the serial port that exists on the host computer (the default port)
SerialPort == 2

\* longest queue of signals from the transport thread to the user interface
MaxQueue == 2
\* longest queue of keyframe transfers requested and not yet started
MaxTransfers == 1

\* results of serial.write() as txrx sees them
WriteResults == {0, 1}
\* answers of a motor controller to the status query "#<a>ZP"
StatusReplies == {"ZP+0", "ZP+2"}

\* RobotInterface::RobotInterface() and setJointConfig(); isReset, isInitialized
\* and isHWCompliant are the flags of the MotorData of the joint of the robot
RobotInterface0 ==
    [serialOpen |-> FALSE, portNumber |-> SerialPort, timeoutTicksLeft |-> TIMEOUT,
     robotIsConnected |-> FALSE, robotIsReset |-> TRUE, robotIsInitialized |-> FALSE,
     doInitialize |-> FALSE, doCheckInitialization |-> TRUE,
     m_isExtendedMode |-> FALSE, m_isPlaying |-> FALSE, m_stopPlaying |-> FALSE,
     isReset |-> FALSE, isInitialized |-> FALSE, isHWCompliant |-> FALSE,
     complianceMode |-> noCompliance, requestedComplianceMode |-> noCompliance,
     txJointAngles |-> 0, txJointVelocities |-> 0, rxJointAngles |-> 0]

\* handle_checkComplianceMode in one step(): outcome "none" (the modes agree,
\* or the function was not called), "exit" (extDisable failed, return),
\* "changed" (the function ran to its end) or "loops" (the while(1) is never
\* left); msg: the messages it emitted
\* outcome: how handle_checkComplianceMode went on, msg: its messages,
\* pending: txJointAngles when it was entered, tx and rx: txJointAngles and
\* rxJointAngles when it leaves extended mode to switch the currents
NoTransition == [outcome |-> "none", msg |-> <<>>, pending |-> 0, tx |-> 0, rx |-> 0]

\* The functions of the transport thread work on a context: the object, the
\* device at the other end of the line (which loop it executes, its playing,
\* stop, loop and quit flags), the signals emitted, the last write result,
\* the last MOTION packet and the compliance transition of this step.
Ctx ==
    [ri |-> ri,
     dev |-> [pc |-> devPc, playing |-> g_isPlaying, stop |-> g_shouldStop,
              fl |-> force_loop, quit |-> g_extShouldQuit],
     sig |-> <<>>, wr |-> -1, motion |-> wireMotion, cm |-> NoTransition]

\* the transport thread executes no while(1) of handle_checkComplianceMode:
\* its timer and its queued slots run
TransportRuns == transition.outcome # "loops"

Emit(c, s) == [c EXCEPT !.sig = Append(@, s)]

\* handleCommand as seen from the line: does the device answer a packet with
\* command cmd?  In passthrough only the INIT pattern is recognised.
DevAnswers(d, cmd) ==
    IF d.pc = "passthrough" THEN cmd = CMD_INIT
    ELSE IF cmd = CMD_RESET THEN FALSE
    ELSE IF cmd \in {CMD_CONFIG, CMD_SAVE_KEYFRAME} THEN ~d.playing
    ELSE TRUE

\* handleCommand as seen from the line: the control state after the packet
DevHandle(d, cmd, flags) ==
    IF d.pc = "passthrough"
    THEN (IF cmd = CMD_INIT THEN [d EXCEPT !.pc = "dispatch"] ELSE d)
    ELSE CASE cmd = CMD_EXIT ->
                IF d.playing THEN [d EXCEPT !.quit = TRUE] ELSE [d EXCEPT !.pc = "passthrough"]
           [] cmd = CMD_STOP -> [d EXCEPT !.stop = TRUE]
           [] cmd = CMD_PLAY /\ ~d.playing ->
                [d EXCEPT !.pc = "segment", !.playing = TRUE, !.stop = FALSE,
                          !.fl = (flags % 2 = PF_LOOP)]
           [] OTHER -> d

\* RobotInterface::disconnectRobot
disconnectRobot(c) ==
    Emit([c EXCEPT !.ri.complianceMode =
                       IF @ = hardwareCompliance THEN noCompliance ELSE @,
                   !.ri.isReset = FALSE, !.ri.isInitialized = FALSE,
                   !.ri.isHWCompliant = FALSE,
                   !.ri.robotIsConnected = FALSE, !.ri.robotIsReset = TRUE,
                   !.ri.robotIsInitialized = FALSE, !.ri.doCheckInitialization = TRUE,
                   !.ri.doInitialize = FALSE, !.ri.m_isExtendedMode = FALSE,
                   !.ri.m_isPlaying = FALSE],
         "robotDisconnected")

\* RobotInterface::setPortNumber
setPortNumber(c, pn) ==
    LET c1 == [c EXCEPT !.ri.portNumber = pn, !.ri.serialOpen = FALSE]
    IN  IF c.ri.robotIsConnected THEN disconnectRobot(c1) ELSE c1

\* RobotInterface::txrx: wr is the result of serial.write, reply what the
\* motor controller answers if the command reaches it
txrx(c, wr, reply) ==
    IF wr # 0
    THEN LET closed == [c EXCEPT !.ri.serialOpen = FALSE, !.wr = wr]
         IN  [c |-> IF c.ri.robotIsConnected THEN disconnectRobot(closed) ELSE closed,
              response |-> "PORTBROKEN"]
    ELSE LET response == IF linkUp /\ c.dev.pc = "passthrough" THEN reply ELSE ""
             c1 == [c EXCEPT !.wr = wr]
         IN  IF response = "" /\ c.ri.robotIsConnected
             THEN IF c.ri.timeoutTicksLeft - 1 = 0
                  THEN [c |-> disconnectRobot([c1 EXCEPT !.ri.timeoutTicksLeft = TIMEOUT]),
                        response |-> response]
                  ELSE [c |-> [c1 EXCEPT !.ri.timeoutTicksLeft = @ - 1],
                        response |-> response]
             ELSE [c |-> [c1 EXCEPT !.ri.timeoutTicksLeft = TIMEOUT], response |-> response]

\* RobotInterface::extCommand / extChat: the result of serial.write is not
\* looked at; ok iff the answer arrives within the 10 read attempts
extCommand(c, cmd, flags) ==
    [c |-> IF linkUp THEN [c EXCEPT !.dev = DevHandle(c.dev, cmd, flags)] ELSE c,
     ok |-> linkUp /\ DevAnswers(c.dev, cmd),
     playing |-> c.dev.playing]

\* RobotInterface::handle_confirmConnection
handle_confirmConnection(c, wr, zp) ==
    LET e == extCommand(c, CMD_EXIT, 0)
        t == txrx(e.c, wr, zp)
    IN  IF t.response \in StatusReplies
        THEN [t.c EXCEPT !.ri.robotIsConnected = TRUE]
        ELSE setPortNumber(t.c, (t.c.ri.portNumber + 1) % PORTCYCLE)

\* RobotInterface::handle_robotReset
handle_robotReset(c, wr) ==
    IF c.ri.isReset THEN [c EXCEPT !.ri.robotIsReset = TRUE]
    ELSE LET t == txrx(c, wr, "P0")
         IN  IF t.response = "P0"
             THEN [t.c EXCEPT !.ri.isReset = TRUE, !.ri.robotIsReset = TRUE]
             ELSE [t.c EXCEPT !.ri.robotIsReset = FALSE]

\* the part of handle_checkInitialization and handle_initialize taken when
\* every motor is initialised; the pollRegister call is one more exchange
WhenInitialized(c, wr) ==
    Emit(txrx([c EXCEPT !.ri.robotIsInitialized = TRUE, !.ri.doInitialize = FALSE],
              wr, "I").c,
         "robotInitialized")

\* RobotInterface::handle_checkInitialization
handle_checkInitialization(c, wr1, zp, wr2) ==
    LET t == IF c.ri.isInitialized THEN [c |-> c, response |-> "ZP+2"] ELSE txrx(c, wr1, zp)
        isInitialized == t.response = "ZP+2"
        c1 == IF isInitialized
              THEN WhenInitialized([t.c EXCEPT !.ri.isInitialized = TRUE], wr2)
              ELSE t.c
    IN  [c1 EXCEPT !.ri.doCheckInitialization = FALSE]

\* RobotInterface::handle_initialize
handle_initialize(c, wr1, zp, wr2) ==
    LET t == IF c.ri.isInitialized THEN [c |-> c, response |-> "ZP+2"] ELSE txrx(c, wr1, zp)
        isInitialized == t.response = "ZP+2"
    IN  IF ~isInitialized
        THEN (IF t.response = "ZP+0" THEN txrx(t.c, wr2, "P1").c ELSE t.c)
        ELSE LET c1 == WhenInitialized([t.c EXCEPT !.ri.isInitialized = TRUE], wr2)
                 e1 == extCommand(c1, CMD_INIT, 0)
                 e2 == IF e1.ok THEN extCommand(e1.c, CMD_CONFIG, 0) ELSE e1
             IN  IF e1.ok /\ e2.ok
                 THEN [e2.c EXCEPT !.ri.m_isExtendedMode = TRUE, !.ri.m_isPlaying = FALSE]
                 ELSE e2.c

\* RobotInterface::handle_extendedMode; fb: the position of the joint in the
\* feedback packet (0x7FFF: no reading), rec: the MOTION packet is recorded
handle_extendedMode(c, fb, rec) ==
    LET feedbackOnly == c.ri.m_isPlaying \/ c.ri.complianceMode = hardwareCompliance
        target == LimitTarget(c.ri.txJointAngles)
        cm == IF feedbackOnly THEN c
              ELSE [c EXCEPT !.ri.txJointAngles = target,
                             !.motion = IF rec
                                        THEN MotionPacket(target, c.ri.txJointVelocities)
                                        ELSE @]
        x == extCommand(cm, IF feedbackOnly THEN CMD_FEEDBACK ELSE CMD_MOTION, 0)
    IN  IF ~x.ok THEN [x.c EXCEPT !.ri.m_isExtendedMode = FALSE]
        ELSE LET c1 == IF c.ri.m_isPlaying /\ c.ri.m_stopPlaying
                       THEN extCommand(x.c, CMD_STOP, 0).c
                       ELSE x.c
                 rx == IF fb = 32767 THEN c.ri.rxJointAngles ELSE FeedbackAngle(fb)
                 c2 == [c1 EXCEPT !.ri.rxJointAngles = rx,
                                  !.ri.txJointAngles =
                                      IF c.ri.complianceMode = hardwareCompliance
                                      THEN rx ELSE @]
             IN  IF c.ri.m_isPlaying /\ ~x.playing
                 THEN Emit([c2 EXCEPT !.ri.m_isPlaying = FALSE,
                                      !.ri.txJointAngles = rx,
                                      !.ri.txJointVelocities = PlaybackEndVelocity],
                           "playbackFinished")
                 ELSE c2

\* QTimer::isActive() of the timer of handle_checkComplianceMode: the timer
\* is started with an interval of 2000 ms and is not single shot, so it stays
\* active, and no event is delivered while the while(1) runs
timer_isActive == TRUE

\* the answer of the motor controller to the n-th command of a transition:
\* mr.silent reads without an answer, then mr.reply every time
MotorReply(mr, n) == IF n <= mr.silent THEN "" ELSE mr.reply

\* handle_checkComplianceMode, while(1): an iteration sends the commands r
\* (hold current) and i (maximum current) to a motor whose flag differs from
\* hw and sets the flag when both are echoed; the loop is left when no motor
\* is left over or the timer is not active.  wr: result of every write, n:
\* number of the next command.  returns: the loop is left; it is not once
\* the answers repeat themselves and the read timeout has passed.
RECURSIVE ComplianceLoop(_, _, _, _, _)
ComplianceLoop(c, hw, wr, mr, n) ==
    IF ~timer_isActive
    THEN [c |-> [c EXCEPT !.ri.requestedComplianceMode = c.ri.complianceMode,
                          !.cm.msg = Append(@, "red")],
          returns |-> TRUE]
    ELSE IF c.ri.isHWCompliant = hw
    THEN [c |-> [c EXCEPT !.cm.msg = Append(@, "green")], returns |-> TRUE]
    ELSE IF n > mr.silent + TIMEOUT + 2
    THEN [c |-> c, returns |-> FALSE]
    ELSE LET t1 == txrx(c, wr, MotorReply(mr, n))
             ok1 == t1.response = "r"
             t2 == IF ok1 THEN txrx(t1.c, wr, MotorReply(mr, n + 1)) ELSE t1
         IN  IF ok1 /\ t2.response = "r"
             THEN [c |-> [t2.c EXCEPT !.ri.isHWCompliant = hw,
                                      !.cm.msg = Append(@, "green")],
                   returns |-> TRUE]
             ELSE ComplianceLoop(t2.c, hw, wr, mr, IF ok1 THEN n + 2 ELSE n + 1)

\* RobotInterface::handle_checkComplianceMode; wr, mr: result of the writes
\* and answers of the motor controller in the exchanges that switch the
\* currents
\* handle_checkComplianceMode, the branch of a request for noCompliance:
\* the positions read last become the targets
AbortMotion_mut(c) == c

AbortMotion(c) == [c EXCEPT !.ri.txJointAngles = c.ri.rxJointAngles]

handle_checkComplianceMode(c, fb, rec, wr, mr) ==
    IF c.ri.complianceMode = c.ri.requestedComplianceMode THEN c
    ELSE LET requested == c.ri.requestedComplianceMode
             c00 == IF requested = noCompliance
                    THEN [handle_extendedMode(
                              [AbortMotion(c) EXCEPT !.ri.complianceMode = noCompliance],
                              fb, rec)
                          EXCEPT !.ri.complianceMode = c.ri.complianceMode]
                    ELSE c
             c0 == [c00 EXCEPT !.cm.pending = c.ri.txJointAngles,
                               !.cm.tx = c00.ri.txJointAngles,
                               !.cm.rx = c00.ri.rxJointAngles]
             d == extCommand(c0, CMD_EXIT, 0)
             lp == ComplianceLoop(d.c, requested = hardwareCompliance, wr, mr, 1)
             e == extCommand(lp.c, CMD_INIT, 0)
         IN  IF ~d.ok THEN [d.c EXCEPT !.cm.outcome = "exit"]
             ELSE IF ~lp.returns THEN [lp.c EXCEPT !.cm.outcome = "loops"]
             ELSE [e.c EXCEPT !.ri.complianceMode = lp.c.ri.requestedComplianceMode,
                              !.cm.outcome = "changed"]

\* RobotInterface::step; open: serial.Open succeeds on the existing port
step(c, open, wr1, zp, wr2, fb, mr, rec) ==
    IF ~c.ri.serialOpen
    THEN IF open /\ c.ri.portNumber = SerialPort
         THEN [c EXCEPT !.ri.serialOpen = TRUE]
         ELSE setPortNumber(c, (c.ri.portNumber + 1) % PORTCYCLE)
    ELSE IF ~c.ri.robotIsConnected THEN handle_confirmConnection(c, wr1, zp)
    ELSE IF ~c.ri.robotIsReset THEN handle_robotReset(c, wr1)
    ELSE IF c.ri.doCheckInitialization THEN handle_checkInitialization(c, wr1, zp, wr2)
    ELSE IF c.ri.doInitialize THEN handle_initialize(c, wr1, zp, wr2)
    ELSE IF ~c.ri.m_isExtendedMode
         THEN LET e == extCommand(c, CMD_INIT, 0)
              IN  IF e.ok THEN [e.c EXCEPT !.ri.m_isExtendedMode = TRUE] ELSE e.c
    ELSE handle_extendedMode(handle_checkComplianceMode(c, fb, rec, wr1, mr), fb, rec)

\* RobotInterface::transferKeyframes(head, cmd): CONFIG, the SAVE_KEYFRAME
\* packets, then COMMIT or PLAY
transferKeyframes(c, cmd) ==
    LET c0 == [c EXCEPT !.ri.m_stopPlaying = FALSE]
        cfg == extCommand(c0, CMD_CONFIG, 0)
        sv == extCommand(cfg.c, CMD_SAVE_KEYFRAME, 0)
        last == extCommand(sv.c, IF cmd = KC_COMMIT THEN CMD_COMMIT ELSE CMD_PLAY,
                           IF cmd = KC_LOOP THEN PF_LOOP ELSE 0)
    IN  IF ~cfg.ok THEN Emit(cfg.c, "keyframeTransferFailed")
        ELSE IF ~sv.ok THEN Emit(sv.c, "keyframeTransferFailed")
        ELSE IF ~last.ok THEN Emit(last.c, "keyframeTransferFailed")
        ELSE IF cmd = KC_COMMIT THEN last.c
        ELSE [last.c EXCEPT !.ri.m_isPlaying = TRUE]

\* the device memory and the sequencer's locals are not touched by the host actions
devFrozen == <<mem_config, g_buffer, g_reached, g_delta, g_remaining, g_config_memory,
               g_keyframe_memory, seg_i, loop, safety_counter, sync_counter, output,
               rxCmd, txLog>>

ApplyCtx(c) ==
    /\ TransportRuns
    /\ ri' = c.ri
    /\ bytesWritten' = c.wr
    /\ uiQueue' = uiQueue \o c.sig
    /\ devPc' = c.dev.pc
    /\ g_isPlaying' = c.dev.playing
    /\ g_shouldStop' = c.dev.stop
    /\ force_loop' = c.dev.fl
    /\ g_extShouldQuit' = c.dev.quit
    /\ wireMotion' = c.motion
    /\ transition' = c.cm
    /\ UNCHANGED devFrozen

\* the timer of the transport thread fires: one call of step()
HostStep(open, wr1, zp, wr2, fb, mr, rec) ==
    /\ Len(uiQueue) + 2 <= MaxQueue
    /\ ApplyCtx(step(Ctx, open, wr1, zp, wr2, fb, mr, rec))
    /\ UNCHANGED <<riQueue, kfpActive, looped, linkUp, motionSequence, head, wire, chat, unitVars, serialVars>>

\* the transport thread runs the slot of a queued keyframeTransferRequested
TransferKeyframes ==
    /\ riQueue # <<>>
    /\ Len(uiQueue) + 2 <= MaxQueue
    /\ ApplyCtx(transferKeyframes(Ctx, Head(riQueue)))
    /\ riQueue' = Tail(riQueue)
    /\ UNCHANGED <<kfpActive, looped, linkUp, motionSequence, head, wire, chat, unitVars, serialVars>>

(***************************************************************************)
(* Host: motion sequence, timeline and the frames of an upload             *)
(***************************************************************************)
DO_IGNORE == 0
DO_SET == 1
DO_RESET == 2
\* longest motion sequence the user builds
MaxSeq == 2

\* a keyframe of the editor: joint angle, speed (percent), pause (seconds)
\* and the digital output box
EditorKeyframe(angle, speed, pause, oc) ==
    [angle |-> angle, speed |-> speed, pause |-> pause, outputCommand |-> oc]

\* keyframes the user puts into the motion sequence: speed as constructed (50),
\* poses 0 and 1 mrad without pause and 100 mrad with a pause
KeyframeInputs ==
    {EditorKeyframe(a, 50, 0, DO_IGNORE) : a \in {0, 1}}
    \cup {EditorKeyframe(100, 50, 1, DO_IGNORE)}

\* values found in the bytes of a packet that nothing has written
StackValues == {0, 65535}

\* Keyframe::distance: maximum norm on the joint angles
distance(kf, other) == Abs(kf.angle - other.angle)

\* keyframeDistance / (0.01 * speed * speedLimit) with speedLimit = SERVOSPEEDMAX,
\* in microseconds
SegmentTime(d, speed) == (d * 100000) \div (speed * SERVOSPEEDMAX)

\* KeyframePlayerItem::KeyframePlayerItem: no joints, no time, DO_IGNORE
KeyframePlayerItem0 ==
    [joints |-> FALSE, angle |-> 0, relativeTime |-> 0, outputCommand |-> DO_IGNORE]

\* an item with joint angles set
Item(angle, t, oc) ==
    [joints |-> TRUE, angle |-> angle, relativeTime |-> t, outputCommand |-> oc]

\* playTheseFrames, the for loop from index i: the pause item of keyframe i,
\* then the item that moves to keyframe i + 1
RECURSIVE Timeline(_, _)
Timeline(keyframes, i) ==
    LET pauseItem == IF keyframes[i].pause > 0
                     THEN <<Item(keyframes[i].angle, keyframes[i].pause * 1000000, DO_IGNORE)>>
                     ELSE <<>>
    IN  IF i = Len(keyframes) THEN pauseItem
        ELSE pauseItem
             \o <<Item(keyframes[i + 1].angle,
                       SegmentTime(distance(keyframes[i], keyframes[i + 1]),
                                   keyframes[i + 1].speed),
                       keyframes[i + 1].outputCommand)>>
             \o Timeline(keyframes, i + 1)

\* KeyframePlayer::playTheseFrames: the list from head on; old is the list
\* built before, which stays when there are fewer than two keyframes
playTheseFrames(keyframes, lp, old) ==
    IF Len(keyframes) < 2 THEN old
    ELSE <<Item(keyframes[1].angle, 0, keyframes[1].outputCommand)>>
         \o Timeline(keyframes, 1)
         \o (IF lp
             THEN <<Item(keyframes[1].angle,
                         SegmentTime(distance(keyframes[Len(keyframes)], keyframes[1]),
                                     keyframes[1].speed),
                         keyframes[1].outputCommand)>>
             ELSE <<>>)

kf_output_cmd_to_proto(cmd) ==
    CASE cmd = DO_RESET -> OC_RESET
      [] cmd = DO_SET -> OC_SET
      [] cmd = DO_IGNORE -> OC_NOP
      [] OTHER -> OC_NOP

\* a proto::Keyframe local of transferKeyframes: the slot of the joint is
\* assigned if the item has the joint, every other slot keeps what the stack
\* held (g)
FrameOf(item, duration, g) ==
    [duration |-> duration,
     ticks |-> [j \in Axes |-> IF item.joints /\ j = Joint.address - 1
                               THEN TicksOf(item.angle) ELSE g],
     output_command |-> kf_output_cmd_to_proto(item.outputCommand)]

\* transferKeyframes: the frame list, the initial frame with duration 0 and
\* one frame per following item with duration = relativeTime * 1000
frames(hd, g) ==
    <<FrameOf(hd[1], 0, g)>>
    \o [k \in 1 .. (Len(hd) - 1) |->
            FrameOf(hd[k + 1], ToUint16(hd[k + 1].relativeTime \div 1000), g)]

\* extSendConfig(num_frames): the configuration packet
extSendConfig(num_frames) == Config(num_frames, Joint.address, m_lookahead)

\* the SAVE_KEYFRAME packets index 0 .. as the device stores them
RECURSIVE SaveAll(_, _, _)
SaveAll(buf, fr, i) ==
    IF i > Len(fr) THEN buf
    ELSE SaveAll(motion_writeToBuffer(buf, i - 1, fr[i]), fr, i + 1)

\* KeyframeArea::addKeyframe on the motion sequence (drop of a keyframe)
addKeyframe(kf) ==
    /\ Len(motionSequence) < MaxSeq
    /\ motionSequence' = Append(motionSequence, kf)
    /\ UNCHANGED <<devVars, hostVars, head, wire, wireMotion, chat, transition, unitVars, serialVars>>

\* KeyframeArea::clear (the clear button of the motion sequence)
clearMotionSequence ==
    /\ motionSequence # <<>>
    /\ motionSequence' = <<>>
    /\ UNCHANGED <<devVars, hostVars, head, wire, wireMotion, chat, transition, unitVars, serialVars>>

\* The transport thread runs the slot of a queued transfer for the flash
\* button: RobotInterface::transferKeyframes(head, KC_COMMIT) with the frames
\* it builds.  g: content of the unassigned bytes, enc: encoder readings of
\* the device.  The device takes CONFIG, the SAVE_KEYFRAME packets and COMMIT
\* when it runs the command loop and is not playing; otherwise CONFIG stays
\* unanswered and nothing else is sent.
TransferFrames(g, enc) ==
    /\ TransportRuns
    /\ riQueue # <<>>
    /\ Head(riQueue) = KC_COMMIT
    /\ Len(uiQueue) + 1 <= MaxQueue
    /\ riQueue' = Tail(riQueue)
    /\ ri' = [ri EXCEPT !.m_stopPlaying = FALSE]
    /\ bytesWritten' = -1
    /\ LET fr == frames(head, g)
           cfg == extSendConfig(Len(fr))
           buf == SaveAll(g_buffer, fr, 1)
       IN  IF linkUp /\ devPc = "dispatch" /\ ~ConfigRejected(NoPacket)
           THEN /\ mem_config' = cfg
                /\ output' = IF motion_isInStartPosition(cfg, enc)
                             THEN executeOutputCommand(output,
                                                       g_keyframe_memory[0].output_command)
                             ELSE output
                /\ g_buffer' = buf
                /\ g_keyframe_memory' = motion_commit(cfg, buf, g_keyframe_memory)
                /\ g_config_memory' = cfg
                /\ wire' = fr
                /\ UNCHANGED uiQueue
           ELSE /\ uiQueue' = Append(uiQueue, "keyframeTransferFailed")
                /\ UNCHANGED <<mem_config, output, g_buffer, g_keyframe_memory,
                               g_config_memory, wire>>
    /\ UNCHANGED <<g_isPlaying, g_shouldStop, g_reached, g_delta, g_remaining,
                   g_extShouldQuit, devPc, seg_i, loop, force_loop, safety_counter,
                   sync_counter, rxCmd, txLog>>
    /\ UNCHANGED <<kfpActive, looped, linkUp, motionSequence, head, wireMotion, chat, transition, unitVars, serialVars>>

(***************************************************************************)
(* Host: the exchanges of a keyframe upload                                *)
(***************************************************************************)
\* sizeof(proto::SimplePacket<Cmd>): header (4 bytes), checksum, end
SIZEOF_SimplePacket == 6
\* most keyframes in the sequence of an upload
MaxChatKf == 3

KeyframeCommands == {KC_COMMIT, KC_PLAY, KC_LOOP}

\* proto::SimplePacket<Cmd>(), the reply extChat expects
ExpectedReply(cmd) == EncodePacket(cmd, <<>>)

\* RobotInterface::extCommand for a request with command cmd and an answer of
\* type SimplePacket: rx are the bytes the reads deliver within the 10
\* attempts.  Bytes that do not begin with the header of the request are
\* thrown away, too few bytes end in the timeout, and the checksum of the
\* answer is compared with the one computed from its header.
extCommandReads(cmd, rx) ==
    /\ Len(rx) >= SIZEOF_SimplePacket
    /\ SubSeq(rx, 1, 3) = <<255, VERSION, cmd>>
    /\ packetChecksum(rx[3], rx[4], <<>>) = rx[5]

\* extChat that accepts every answer with a correct checksum
extChat_mut(cmd, rx, expectedReply) == extCommandReads(cmd, rx)

\* RobotInterface::extChat: the answer read is, byte for byte, the expected one
extChat(cmd, rx, expectedReply) ==
    /\ extCommandReads(cmd, rx)
    /\ SubSeq(rx, 1, SIZEOF_SimplePacket) = expectedReply

\* a packet of the upload as written to the line: the command, and for
\* SAVE_KEYFRAME the index and the keyframe of its payload
ChatPacket(cmd, index, kf) == [command |-> cmd, index |-> index, keyframe |-> kf]

\* the run of transferKeyframes so far: the packets written, the signals
\* emitted, m_isPlaying, and whether the function has returned
ChatRun0 == [sent |-> <<>>, sig |-> <<>>, playing |-> FALSE, returned |-> FALSE]

\* one extChat of the upload: the packet is written, the answer to it is
\* replies[number of the exchange]; on a failure the message (if any) and
\* keyframeTransferFinished(false) are emitted and the function returns
Exchange(x, pk, replies, msg) ==
    LET x1 == [x EXCEPT !.sent = Append(@, pk)]
    IN  IF extChat(pk.command, replies[Len(x1.sent)], ExpectedReply(pk.command))
        THEN x1
        ELSE [x1 EXCEPT !.sig = @ \o msg \o <<"keyframeTransferFinished(false)">>,
                        !.returned = TRUE]

\* transferKeyframes: the for loop over the frames from index i on
RECURSIVE SaveFrames(_, _, _, _)
SaveFrames(x, fr, i, replies) ==
    IF x.returned \/ i >= Len(fr) THEN x
    ELSE SaveFrames(Exchange(x, ChatPacket(CMD_SAVE_KEYFRAME, ToUint8(i), fr[i + 1]),
                             replies, <<"message">>),
                    fr, i + 1, replies)

\* transferKeyframes from "Everything prepared, begin flash process" on:
\* extSendConfig, the SAVE_KEYFRAME packets, then COMMIT or PLAY
transferExchanges(fr, cmd, replies) ==
    LET cfg == IF Joint.address > NUM_AXES
               THEN [ChatRun0 EXCEPT !.sig = <<"message", "keyframeTransferFinished(false)">>,
                                     !.returned = TRUE]
               ELSE Exchange(ChatRun0, ChatPacket(CMD_CONFIG, 0, extSendConfig(Len(fr))),
                             replies, <<"message">>)
        sv == SaveFrames(cfg, fr, 0, replies)
        last == IF sv.returned THEN sv
                ELSE IF cmd = KC_COMMIT
                THEN Exchange(sv, ChatPacket(CMD_COMMIT, 0, 0), replies, <<"message">>)
                ELSE IF cmd \in {KC_PLAY, KC_LOOP}
                THEN LET p == Exchange(sv, ChatPacket(CMD_PLAY,
                                                      IF cmd = KC_LOOP THEN PF_LOOP ELSE 0, 0),
                                       replies, <<"message">>)
                     IN  IF p.returned THEN p
                         ELSE [p EXCEPT !.sig = Append(@, "playbackStarted"),
                                        !.playing = TRUE]
                ELSE sv
    IN  IF last.returned THEN last
        ELSE [last EXCEPT !.sig = Append(@, "keyframeTransferFinished(true)"),
                          !.returned = TRUE]

\* no upload has run
NoChat == [frames |-> <<>>, cmd |-> KC_COMMIT, replies |-> <<>>, run |-> ChatRun0]

\* The transport thread runs the slot transferKeyframes(head, cmd) for the
\* list hd; g: content of the unassigned bytes of the frames, replies: what
\* the reads of each exchange deliver
TransferChat(hd, cmd, g, replies) ==
    /\ TransportRuns
    /\ Len(uiQueue) + 1 <= MaxQueue
    /\ LET fr == frames(hd, g)
           run == transferExchanges(fr, cmd, replies)
       IN  /\ chat' = [frames |-> fr, cmd |-> cmd, replies |-> replies, run |-> run]
           /\ ri' = [ri EXCEPT !.m_stopPlaying = FALSE,
                               !.m_isPlaying = IF run.playing THEN TRUE ELSE @]
           /\ uiQueue' = IF "keyframeTransferFinished(false)" \in
                               {run.sig[k] : k \in 1 .. Len(run.sig)}
                         THEN Append(uiQueue, "keyframeTransferFailed")
                         ELSE uiQueue
    /\ UNCHANGED <<devVars, serialVars, bytesWritten, riQueue, kfpActive, looped, linkUp,
                   motionSequence, head, wire, wireMotion, transition, unitVars>>

\* motion_runSequence, the look-ahead branch for one axis: the velocity
\* handed to nt_setVelocity.  e: mem_config.enc_to_mot[j], la:
\* mem_config.lookahead, dest: the interpolated position, enc: the encoder
\* position read.  The arithmetic is that of int32_t (the inputs keep every
\* product below 2^31), the parameter of nt_setVelocity is a uint16_t.
CDiv(a, b) == IF a < 0 THEN -((-a) \div b) ELSE a \div b

\* nt_setVelocity(uint8_t id, uint16_t vel): the int32_t speeds[j] converted
SpeedArgument(speed) == ToUint16(speed)

LookAheadSpeed(e, la, dest, enc) ==
    LET maxSpeed == (e * 7000) \div 256
        vel0 == Abs(CDiv(1000 * (dest - enc), la))
        vel == CDiv(vel0 * e, 256)
    IN  IF vel < 100 THEN 100
        ELSE IF vel > maxSpeed THEN maxSpeed
        ELSE vel

nt_setVelocity(e, la, dest, enc) == SpeedArgument(LookAheadSpeed(e, la, dest, enc))

(***************************************************************************)
(* Tendon controller (NanoJMotorControl.java)                              *)
(***************************************************************************)
ENCODER_SHIFT == 2

\* x >> n and x << n of an int, without overflow
ShiftRight(x, n) == x \div (2 ^ n)
ShiftLeft(x, n) == x * (2 ^ n)

\* variant: a target below 5 steps is left as it is
AwayFromZero_mut(t) == t

\* "if(driveTarget > 0 && driveTarget < 5) driveTarget = 5; else
\* if(driveTarget < 0 && driveTarget > -5) driveTarget = -5;"
AwayFromZero(t) ==
    IF t > 0 /\ t < 5 THEN 5
    ELSE IF t < 0 /\ t > -5 THEN -5
    ELSE t

\* main() before the first readRegister: no request sent (req), readRegister
\* not running (pc), nothing on the RS-485 line (line) nor in
\* com_buf_from_bot.  Each byte is [c, req]: the character and the number of
\* the request the controller sent it for.  ret: the last return of
\* readRegister, with the requests its bytes were sent for (from)
NoExchange ==
    [req |-> 0, pc |-> "idle", id |-> 0, reg |-> "", line |-> <<>>,
     com_buf_from_bot |-> <<>>, answer_buf |-> <<>>,
     ret |-> [ok |-> FALSE, value |-> 0, from |-> {}, req |-> 0]]

\* the player and the interface after construction, robot connected.
\* built: calls of playTheseFrames that rebuilt the list behind head;
\* items: items of the list; queue: keyframeTransferRequested signals not
\* yet delivered; walking: 0, or the number of the list (built) that the
\* for loop of transferKeyframes entered; at: the item it has reached;
\* phase: "idle", "walk" in the for loop, "send" in the exchanges; fault:
\* what became of a traversal of freed items
Upload0 ==
    [built |-> 0, items |-> 1, queue |-> <<>>, walking |-> 0, at |-> 0, cmd |-> 0,
     phase |-> "idle", m_isPlaying |-> FALSE, m_stopPlaying |-> FALSE, fault |-> "none"]

\* motors in m_motors
NumMotors == 2
Motors == 1 .. NumMotors

\* RobotInterface::RobotInterface, and the robot found by
\* handle_confirmConnection: the flags of the interface and of the motors,
\* the transport thread at the top of step() (pc), the local isInitialized
\* of the handler it is in.  axis: the state each motor controller answers
\* to ZP (left at 2 by an earlier session); fresh: it has answered ZP+2
\* after the last P0 sent to it; emitted: robotInitialized() was emitted
\* since the last initializeRobot()
Bringup0 ==
    [robotIsReset |-> TRUE, robotIsInitialized |-> FALSE, doInitialize |-> FALSE,
     doCheckInitialization |-> TRUE, isReset |-> [m \in Motors |-> FALSE],
     isInitialized |-> [m \in Motors |-> FALSE], pc |-> "step", local |-> FALSE,
     axis |-> [m \in Motors |-> 2], fresh |-> [m \in Motors |-> FALSE],
     emitted |-> FALSE, m_isExtendedMode |-> FALSE]

\* main() after power up: no playback routine runs, "bool isInitialized =
\* false".  stack: the activations of motion_doStartKeyframe ("start") and
\* motion_runSequence ("run") that have not returned, the innermost last;
\* plays, acks, runs: PLAY packets handled, answered, and calls of
\* motion_runSequence they made
NoCalls == [stack |-> <<>>, g_isPlaying |-> FALSE, g_shouldStop |-> FALSE,
            isInitialized |-> FALSE, plays |-> 0, acks |-> 0, runs |-> 0]

\* KeyframePlayer::KeyframePlayer: the head alone, the timer not started.
\* sample: the joint angle of the last motionOut; emitted: motionOut
\* signals of the last step(); finished: finished() signals since start()
KeyframePlayer0 ==
    [items |-> <<KeyframePlayerItem0>>, current |-> 1, sliderPosition |-> 0,
     looped |-> FALSE, active |-> FALSE, sample |-> 0, emitted |-> 0, finished |-> 0]

\* extCommand: "if(++counter > 10)", the read attempts of one command
READ_ATTEMPTS == 10

\* extCommand: "memcmp(&cmd, buf, 3)", the first bytes of the buffer are the
\* header of the request
HeaderAtFront(cmd, buf) ==
    Len(buf) >= 3 /\ SubSeq(buf, 1, 3) = <<255, VERSION, cmd>>

\* extCommand: "int i = 0; while(memcmp(&cmd, buf, 3) != 0) { ++i; if(i ==
\* readptr - buf) break; }": buf is compared, never buf + i, so i ends at 0
\* or at the number of bytes read
ScanHeader(cmd, buf) == IF HeaderAtFront(cmd, buf) THEN 0 ELSE Len(buf)

\* extCommand, the while(remsize > 0) loop for an answer of sizeof(Answer)
\* = SIZEOF_SimplePacket bytes.  buf: the bytes between buf and readptr;
\* line: the bytes the port holds; arrivals: the bytes that reach the port
\* before each further read; counter: the reads made
RECURSIVE extCommandLoop(_, _, _, _, _)
extCommandLoop(cmd, buf, line, arrivals, counter) ==
    LET remsize == SIZEOF_SimplePacket - Len(buf)
    IN  IF remsize = 0
        THEN [ok |-> packetChecksum(buf[3], buf[4], <<>>) = buf[5], answer |-> buf,
              reads |-> counter, why |-> "answer"]
        ELSE IF counter + 1 > READ_ATTEMPTS
        THEN [ok |-> FALSE, answer |-> <<>>, reads |-> counter, why |-> "timeout"]
        ELSE LET ret == Min(remsize, Len(line))
                 buf1 == buf \o SubSeq(line, 1, ret)
                 rest == SubSeq(line, ret + 1, Len(line))
                 line1 == IF arrivals = <<>> THEN rest ELSE rest \o Head(arrivals)
                 arr1 == IF arrivals = <<>> THEN <<>> ELSE Tail(arrivals)
                 i == ScanHeader(cmd, buf1)
             IN  IF ret = 0 \/ Len(buf1) < 4
                 THEN extCommandLoop(cmd, buf1, line1, arr1, counter + 1)
                 ELSE extCommandLoop(cmd, SubSeq(buf1, i + 1, Len(buf1)), line1, arr1,
                                     counter + 1)

\* no command has been followed
NoResync == [cmd |-> CMD_INIT, stray |-> <<>>, first |-> 0, result |-> "none",
             answer |-> <<>>, reads |-> 0]

\* slots of m_buf in the model; the code has BUFSIZE (256) of them, and its
\* index arithmetic "& BUFSIZE_MASK" is the remainder by the number of slots
RingSize == 4

\* bytes the producer offers
RingBytes == {1, 2}

\* CircularBuffer::put without the test for a full buffer
RingFull_mut(newidx, r) == FALSE

\* CircularBuffer::put: "if(newidx != m_read_idx)" fails, the buffer is full
RingFull(newidx, r) == newidx = r

\* "(idx + 1) & BUFSIZE_MASK"
RingNext(idx) == (idx + 1) % RingSize

\* CircularBuffer(): both indices 0.  owed: the bytes put() has stored since
\* the last flush() and get() has not returned yet; avail: the answer of the
\* consumer's last available(), until its next get() or flush(); got: the
\* byte of the last get() and what the consumer knew when it called
RingInit == [m_buf |-> [i \in 0 .. RingSize - 1 |-> 0], m_write_idx |-> 0, m_read_idx |-> 0,
             owed |-> <<>>, avail |-> FALSE,
             got |-> [c |-> 0, avail |-> FALSE, owed |-> <<>>], dropped |-> FALSE]

\* CircularBuffer::put, one atomic block
ring_put(b, c) ==
    LET newidx == RingNext(b.m_write_idx)
    IN  IF ~RingFull(newidx, b.m_read_idx)
        THEN [b EXCEPT !.m_buf[b.m_write_idx] = c, !.m_write_idx = newidx,
                       !.owed = Append(b.owed, c), !.dropped = FALSE]
        ELSE [b EXCEPT !.dropped = TRUE]

\* CircularBuffer::flush
ring_flush(b) == [b EXCEPT !.m_read_idx = b.m_write_idx, !.owed = <<>>, !.avail = FALSE]

\* CircularBuffer::available
ring_available(b) == [b EXCEPT !.avail = b.m_read_idx # b.m_write_idx]

\* CircularBuffer::get: the byte at m_read_idx, and the index moves unless
\* the buffer is empty
ring_get(b) ==
    LET c == b.m_buf[b.m_read_idx]
        moved == b.m_read_idx # b.m_write_idx
    IN  [b EXCEPT !.m_read_idx = IF moved THEN RingNext(b.m_read_idx) ELSE b.m_read_idx,
                  !.owed = IF moved THEN Tail(b.owed) ELSE b.owed,
                  !.avail = FALSE,
                  !.got = [c |-> c, avail |-> b.avail, owed |-> b.owed]]

\* main() after initializeController(): the locals of the control loop;
\* started: drive.StartDrive() was called (initializeController stops the
\* drive)
NanoJInit == [holdingPosition |-> 0, driveTarget |-> 0, delta |-> 0,
              motorActualPosition |-> 0, started |-> FALSE]

\* main(), state == 2: one iteration of the position control.  c: the locals
\* before, encTarget: GetMaxSpeed2() - POSITION_BIAS, targetSpeed:
\* GetMaxSpeed(), enc: GetEncoderPosition(), mot: GetDemandPosition().
\* driveTarget is what SetTargetPos gets.
PositionControl(c, encTarget, targetSpeed, enc, mot) ==
    LET delta == ShiftRight(encTarget - enc, ENCODER_SHIFT)
        deltaAbs == IF delta > 0 THEN delta ELSE -delta
        farShift == IF ShiftRight(targetSpeed, 5) - deltaAbs < 0 THEN 1 ELSE 0
        latch == deltaAbs < 3 /\ c.holdingPosition = 0 /\ deltaAbs < 2
        holding == IF deltaAbs < 3
                   THEN (IF latch THEN 1 ELSE c.holdingPosition)
                   ELSE 0
        latched == IF latch
                   THEN (IF delta < 0 THEN mot - 4 ELSE mot)
                   ELSE c.driveTarget
    IN  [holdingPosition |-> holding,
         driveTarget |-> IF holding = 0
                         THEN AwayFromZero(ShiftLeft(delta, farShift)) + mot
                         ELSE latched,
         delta |-> delta,
         motorActualPosition |-> mot,
         started |-> TRUE]

\* no move to the start keyframe was seen yet
NoStartMove == [result |-> "none", streak |-> 0, velocity |-> -1, observed |-> FALSE]

NoDriver == [enc_to_mot |-> 0, lookahead |-> 0, dest |-> 0, encPos |-> 0, velocity |-> 0]

EditInit ==
    /\ motionSequence = <<>>
    /\ head = <<KeyframePlayerItem0>>
    /\ wire = <<>>
    /\ chat = NoChat
    /\ transition = NoTransition
    /\ driver = NoDriver
    /\ startMove = NoStartMove
    /\ nanoj = NanoJInit
    /\ ring = RingInit
    /\ resync = NoResync
    /\ player = KeyframePlayer0
    /\ calls = NoCalls
    /\ bringup = Bringup0
    /\ upload = Upload0
    /\ bus = NoExchange
    /\ wireMotion = NoMotion

(***************************************************************************)
(* Host: IgusMotionEditor and KeyframePlayer (user interface thread)       *)
(***************************************************************************)
\* IgusMotionEditor::playerFinished
playerFinished == looped' = FALSE

\* on_playButton_clicked (kc = KC_PLAY) and on_loopButton_clicked (kc = KC_LOOP)
\* with keyframes in the motion sequence; the timeline that is played is not
\* tracked (the frames of a transfer are, for the flash button)
StartClicked(kc) ==
    IF kfpActive
    THEN /\ kfpActive' = FALSE
         /\ playerFinished
         /\ UNCHANGED <<ri, riQueue>>
    ELSE IF ri.m_isPlaying
    THEN /\ ri' = [ri EXCEPT !.m_stopPlaying = TRUE]
         /\ playerFinished
         /\ UNCHANGED <<kfpActive, riQueue>>
    ELSE /\ looped' = IF kc = KC_LOOP THEN TRUE ELSE ri.robotIsConnected
         /\ IF ri.robotIsConnected
            THEN /\ Len(riQueue) < MaxTransfers
                 /\ riQueue' = Append(riQueue, kc)
                 /\ UNCHANGED kfpActive
            ELSE /\ kfpActive' = TRUE
                 /\ UNCHANGED riQueue
         /\ UNCHANGED ri

on_playButton_clicked ==
    /\ StartClicked(KC_PLAY)
    /\ UNCHANGED <<editVars, serialVars, devVars, bytesWritten, uiQueue, linkUp>>

on_loopButton_clicked ==
    /\ StartClicked(KC_LOOP)
    /\ UNCHANGED <<editVars, serialVars, devVars, bytesWritten, uiQueue, linkUp>>

on_flashButton_clicked ==
    /\ Len(riQueue) < MaxTransfers
    /\ head' = playTheseFrames(motionSequence, TRUE, head)
    /\ riQueue' = Append(riQueue, KC_COMMIT)
    /\ looped' = FALSE
    /\ UNCHANGED <<devVars, ri, bytesWritten, kfpActive, uiQueue, linkUp, motionSequence, wire,
                   wireMotion, chat, transition, unitVars, serialVars>>

\* on_initButton_clicked -> RobotInterface::initializeRobot (direct call)
on_initButton_clicked ==
    /\ ri.robotIsConnected
    /\ ri' = [ri EXCEPT !.isReset = FALSE, !.isInitialized = FALSE, !.robotIsReset = FALSE,
                        !.robotIsInitialized = FALSE, !.doInitialize = TRUE,
                        !.doCheckInitialization = FALSE]
    /\ UNCHANGED <<editVars, serialVars, devVars, bytesWritten, riQueue, kfpActive, looped, uiQueue, linkUp>>

\* the user interface thread runs the slot of a queued signal: robotDisconnected,
\* robotInitialized, playerFinished (playbackFinished), keyframeTransferFinished(false)
UiDeliver ==
    /\ uiQueue # <<>>
    /\ uiQueue' = Tail(uiQueue)
    /\ IF Head(uiQueue) \in {"robotDisconnected", "robotInitialized"}
       THEN IF kfpActive
            THEN kfpActive' = FALSE /\ playerFinished
            ELSE UNCHANGED <<kfpActive, looped>>
       ELSE playerFinished /\ UNCHANGED kfpActive
    /\ UNCHANGED <<editVars, serialVars, devVars, ri, bytesWritten, riQueue, linkUp>>

\* KeyframePlayer::step reaches the end of a timeline that is not looped
KfpFinished ==
    /\ kfpActive /\ ~looped
    /\ kfpActive' = FALSE
    /\ playerFinished
    /\ UNCHANGED <<editVars, serialVars, devVars, ri, bytesWritten, riQueue, uiQueue, linkUp>>

(***************************************************************************)
(* The device and the line as the host session sees them                   *)
(***************************************************************************)
\* motion_runSequence returns: the sequence is over or was stopped
SequenceReturns ==
    /\ devPc = "segment" /\ g_isPlaying
    /\ g_shouldStop \/ ~force_loop
    /\ g_isPlaying' = FALSE
    /\ force_loop' = FALSE
    /\ devPc' = IF g_extShouldQuit THEN "passthrough" ELSE "dispatch"
    /\ g_extShouldQuit' = FALSE
    /\ UNCHANGED <<g_shouldStop, devFrozen, hostVars, editVars, serialVars>>

\* the cable is pulled or plugged, the device switched off or on
LinkChange ==
    /\ linkUp' = ~linkUp
    /\ UNCHANGED <<editVars, serialVars, devVars, ri, bytesWritten, riQueue, kfpActive, looped, uiQueue>>

HostInit ==
    /\ ri = RobotInterface0
    /\ bytesWritten = -1
    /\ riQueue = <<>>
    /\ kfpActive = FALSE
    /\ looped = FALSE
    /\ uiQueue = <<>>
    /\ linkUp = TRUE

\* feedback positions and motor answers when the robot rests at angle 0
FbQuiet == {0}
MotorQuiet == {[silent |-> 0, reply |-> "r"]}

TransportStep ==
    \E open \in BOOLEAN, wr1 \in WriteResults, zp \in StatusReplies, wr2 \in WriteResults,
       fb \in FbQuiet, mr \in MotorQuiet :
        HostStep(open, wr1, zp, wr2, fb, mr, FALSE)

\* joint angles (mrad) and velocities (mrad/s) that the editor hands over:
\* a joystick, slider or spin box value, a frame of the keyframe player; the
\* angle lies beyond the lower limit, the target at rest (0) within the limits
AngleInputs == {-1500}
VelocityInputs == {-5000}

\* the feedback position of a robot that was moved by hand
FbInputs == {1000}
\* the motor controller echoes a current command at once, or after the read
\* timeout has passed, or never
MotorInputs ==
    {[silent |-> 0, reply |-> "r"], [silent |-> TIMEOUT, reply |-> "r"],
     [silent |-> 0, reply |-> ""]}

\* RobotInterface::motionIn, the slot of motionOut of the editor and of the
\* keyframe player, run by the transport thread; hasA, hasV: the hashes
\* contain the joint
motionIn(hasA, angle, hasV, vel) ==
    /\ TransportRuns
    /\ ri' = [ri EXCEPT !.txJointAngles = IF hasA THEN LimitTarget(angle) ELSE @,
                        !.txJointVelocities =
                            IF hasV THEN qBound(0, Abs(vel), SERVOSPEEDMAX * 1000) ELSE @]
    /\ UNCHANGED <<editVars, serialVars, devVars, bytesWritten, riQueue, kfpActive, looped, uiQueue, linkUp>>

\* RobotInterface::stopRobot
stopRobot ==
    /\ TransportRuns
    /\ ri' = [ri EXCEPT !.txJointAngles = ri.rxJointAngles, !.txJointVelocities = 0]
    /\ UNCHANGED <<editVars, serialVars, devVars, bytesWritten, riQueue, kfpActive, looped, uiQueue, linkUp>>

\* RobotInterface::setComplianceMode
setComplianceMode(cm) ==
    /\ TransportRuns
    /\ ri.robotIsInitialized
    /\ cm # ri.requestedComplianceMode
    /\ ri' = [ri EXCEPT !.requestedComplianceMode = cm]
    /\ UNCHANGED <<editVars, serialVars, devVars, bytesWritten, riQueue, kfpActive, looped, uiQueue, linkUp>>

\* one call of step() with the MOTION packet recorded; the port opens, every
\* write succeeds and the motor is initialised
MotionStep ==
    \E fb \in FbInputs, mr \in MotorInputs : HostStep(TRUE, 0, "ZP+2", 0, fb, mr, TRUE)

\* the motion exchange: targets from the editor, playback on the device,
\* compliance changes
MotionNext ==
    \/ MotionStep
    \/ \E hasA \in BOOLEAN, a \in AngleInputs, hasV \in BOOLEAN, v \in VelocityInputs :
           motionIn(hasA, a, hasV, v)
    \/ stopRobot
    \/ \E cm \in {hardwareCompliance, noCompliance} : setComplianceMode(cm)
    \/ on_playButton_clicked
    \/ TransferKeyframes
    \/ SequenceReturns
    \/ UiDeliver

\* the connection state machine alone: no playback is requested
ConnNext ==
    \/ TransportStep
    \/ on_initButton_clicked
    \/ UiDeliver
    \/ DispatchIdleTimeout
    \/ LinkChange

HostNext ==
    \/ KfpFinished
    \/ TransportStep
    \/ TransferKeyframes
    \/ on_playButton_clicked
    \/ on_loopButton_clicked
    \/ on_flashButton_clicked
    \/ on_initButton_clicked
    \/ UiDeliver
    \/ SequenceReturns
    \/ DispatchIdleTimeout
    \/ LinkChange

(***************************************************************************)
(* Specifications                                                          *)
(***************************************************************************)
Init == DevInit /\ HostInit /\ EditInit /\ SerialInit
Next == DevNext(Packets, FALSE)
Spec == Init /\ [][Next]_vars

\* the device with one configuration and one sequence, replies recorded
ReplyPackets ==
    {p \in Packets :
        /\ p.command = CMD_CONFIG /\ p.length = SIZEOF_Config
              => p.config = Config(3, 1, MaxDuration + 1)
        /\ p.command = CMD_SAVE_KEYFRAME /\ p.length = SIZEOF_SaveKeyframe
              => p.index = 0 \/ (p.index = 1 /\ p.keyframe.duration = 1)}
NextReply == DevNext(ReplyPackets, TRUE)
SpecReply == Init /\ [][NextReply]_vars

\* the device as a running processor: the main loop, the sequencer loops and
\* the timer interrupt keep executing; nothing obliges the host to send a
\* packet or the peers to release the synchronisation line
DevRuns ==
    \/ Boot
    \/ \E dt \in TickInputs : TimerISR(dt)
    \/ \E e \in EncInputs : StartKfIter(EncReading(e), NoPacket, EncReading(NoEnc), FALSE)
    \/ StartKfFail
    \/ \E b \in BOOLEAN : SegmentIter(b, NoPacket, EncReading(NoEnc), FALSE)
    \/ SegmentEnd
    \/ \E h \in BOOLEAN : SyncPoll(h)
NextFair == DevNext(ReplyPackets, FALSE)
SpecFair == Init /\ [][NextFair]_vars /\ WF_vars(DevRuns)

\* the host session: both host threads, the device seen from the line
SpecHost == Init /\ [][HostNext]_vars

\* the connection state machine of the host
SpecConn == Init /\ [][ConnNext]_vars

\* the same with the timer of the transport thread firing again and again
SpecConnFair == Init /\ [][ConnNext]_vars /\ WF_vars(TransportStep)

\* editing the motion sequence and flashing it to the device
UploadNext ==
    \/ \E kf \in KeyframeInputs : addKeyframe(kf)
    \/ clearMotionSequence
    \/ on_flashButton_clicked
    \/ \E g \in StackValues, e \in EncInputs : TransferFrames(g, EncReading(e))
    \/ UiDeliver
    \/ PassthroughInit(FALSE)
    \/ DispatchIdleTimeout
SpecUpload == Init /\ [][UploadNext]_vars

\* the timelines of uploads: up to MaxChatKf keyframes of the motion
\* sequence, 100 mrad apart
ChatHeads ==
    {playTheseFrames([k \in 1 .. n |-> EditorKeyframe(100 * k, 50, 0, DO_IGNORE)],
                     FALSE, <<KeyframePlayerItem0>>) : n \in 0 .. MaxChatKf}

\* the command of exchange k of an upload of n frames
ChatCommand(n, cmd, k) ==
    IF k = 1 THEN CMD_CONFIG
    ELSE IF k <= n + 1 THEN CMD_SAVE_KEYFRAME
    ELSE IF cmd = KC_COMMIT THEN CMD_COMMIT ELSE CMD_PLAY

\* what the reads of an exchange deliver when it goes wrong: nothing, a
\* packet with a wrong checksum, a packet of the same command with another
\* length byte and the checksum that fits it
AnswerKinds == {"silent", "checksum", "length"}
BadAnswer(kind, c) ==
    CASE kind = "silent" -> <<>>
      [] kind = "checksum" ->
            [ExpectedReply(c) EXCEPT ![5] = ToUint8(@ + 1)]
      [] OTHER -> <<255, VERSION, c, 1, packetChecksum(c, 1, <<>>), 13>>

\* the answers of the device to the exchanges of an upload of n frames:
\* exchange failAt goes wrong (0: none), every other one is acknowledged
Replies(n, cmd, failAt, kind) ==
    [k \in 1 .. n + 2 |->
        IF k = failAt THEN BadAnswer(kind, ChatCommand(n, cmd, k))
        ELSE ExpectedReply(ChatCommand(n, cmd, k))]

\* uploads against a device that answers or fails at any exchange
ChatNext ==
    \/ \E hd \in ChatHeads, cmd \in KeyframeCommands, g \in {0},
          failAt \in 0 .. MaxChatKf + 3, kind \in AnswerKinds :
           /\ failAt <= Len(hd) + 2
           /\ TransferChat(hd, cmd, g, Replies(Len(hd), cmd, failAt, kind))
    \/ UiDeliver
SpecChat == Init /\ [][ChatNext]_vars

\* the motion exchange of the host with the device
SpecMotion == Init /\ [][MotionNext]_vars

\* a compliance change on a link that can break: the writes may fail, the
\* cable may be pulled, and the device may fall back to pass-through
ComplianceStep ==
    \E wr \in WriteResults, fb \in FbInputs, mr \in MotorInputs :
        HostStep(TRUE, wr, "ZP+2", 0, fb, mr, TRUE)

ComplianceNext ==
    \/ ComplianceStep
    \/ \E cm \in {hardwareCompliance, noCompliance} : setComplianceMode(cm)
    \/ \E a \in AngleInputs : motionIn(TRUE, a, FALSE, 0)
    \/ LinkChange
    \/ UiDeliver
    \/ DispatchIdleTimeout

SpecCompliance == Init /\ [][ComplianceNext]_vars

\* configurations and positions of a look-ahead step: enc_to_mot of the
\* joints of the robot (256 * 3600 / 4096 = 225), of the example, and the
\* values around 65535 * 256 / 7000, and the least one with 100 below the
\* maximum; look-ahead times in ms; positions in
\* encoder ticks
EncToMotInputs == {4, 225, 256, 2396, 2400}
LookaheadTimes == {50, 200, 1000}
DestInputs == {-2000, 0, 500, 2000}
EncPosInputs == {-1800, 450, 500}

\* one look-ahead step of motion_runSequence for an axis whose encoder
\* answers
LookAheadStep ==
    \E e \in EncToMotInputs, la \in LookaheadTimes, dest \in DestInputs, enc \in EncPosInputs :
        /\ driver' = [enc_to_mot |-> e, lookahead |-> la, dest |-> dest, encPos |-> enc,
                      velocity |-> nt_setVelocity(e, la, dest, enc)]
        /\ UNCHANGED <<devVars, hostVars, serialVars, motionSequence, head, wire, wireMotion,
                       chat, transition, startMove, nanoj, auxVars>>

SpecLookAhead == Init /\ [][LookAheadStep]_vars

\* extSendConfig: enc_to_mot of the joint, 256 * enc_to_rad / mot_to_rad
ConfigEncToMot == (256 * Joint.motor_steps_per_turn) \div Joint.encoder_steps_per_turn

\* motion_doStartKeyframe(): the velocity of the move to the start keyframe
StartVelocity == (ConfigEncToMot * 94) \div 256

\* packets around a playback: a sequence of three frames whose start frame is
\* where the encoder reads (0) or 100 ticks away, stored or only buffered
StartPackets ==
    {Packet(CMD_STOP, 0), Packet(CMD_COMMIT, 0), Packet(CMD_PLAY, 1),
     [Packet(CMD_CONFIG, SIZEOF_Config) EXCEPT !.config = Config(3, 1, 0)]}
    \cup {[Packet(CMD_SAVE_KEYFRAME, SIZEOF_SaveKeyframe) EXCEPT !.index = 0, !.keyframe = k] :
              k \in {Keyframe(0, NT_POSITION_BIAS, OC_NOP),
                     Keyframe(0, NT_POSITION_BIAS + 100, OC_NOP)}}
    \cup {[Packet(CMD_SAVE_KEYFRAME, SIZEOF_SaveKeyframe) EXCEPT
               !.index = 1, !.keyframe = Keyframe(1, NT_POSITION_BIAS + 100, OC_SET)]}

\* the variables a step of the device leaves alone while startMove follows it
StartFrame ==
    UNCHANGED <<hostVars, serialVars, motionSequence, head, wire, wireMotion, chat,
                transition, driver, nanoj, auxVars>>

\* handleCommands(): one packet is dispatched; a PLAY packet enters
\* motion_runSequence, which starts with motion_isInStartPosition
StartDispatch(p, enc) ==
    /\ DispatchBody(p, enc, FALSE)
    /\ startMove' =
           IF handleCommand(p, enc).jump # "play" THEN startMove
           ELSE IF devPc' = "startkf"
           THEN [result |-> "moving", streak |-> 0, velocity |-> -1, observed |-> FALSE]
           ELSE [result |-> "inposition", streak |-> 0, velocity |-> -1,
                 observed |-> motion_keyframeReached(g_buffer'[0], enc, mem_config')]
    /\ StartFrame

\* motion_doStartKeyframe(): one iteration of the while loop; the motor gets
\* the velocity of the move, and the start keyframe is compared with the
\* encoders
StartMoveIter(enc, p) ==
    /\ StartKfIterBody(enc, p, EncReading(NoEnc), FALSE)
    /\ LET reached == motion_keyframeReached(g_buffer[0], enc, mem_config)
       IN  startMove' = [result |-> IF devPc' \in {"startkf", "bootloader"}
                                    THEN "moving" ELSE "reached",
                         streak |-> IF reached THEN startMove.streak + 1 ELSE 0,
                         velocity |-> StartVelocity,
                         observed |-> reached]
    /\ StartFrame

\* motion_doStartKeyframe(): the while loop is left, nt_setVelocity(j+1, 0)
\* for the active axes, return false
StartMoveFail ==
    /\ StartKfFailBody
    /\ startMove' = [startMove EXCEPT !.result = "failed", !.velocity = 0]
    /\ StartFrame

StartNext ==
    \/ PassthroughInit(FALSE)
    \/ \E p \in StartPackets, e \in EncInputs : StartDispatch(p, EncReading(e))
    \/ \E dt \in TickInputs : TimerISR(dt)
    \/ \E e \in EncInputs, p \in {NoPacket, Packet(CMD_STOP, 0)} :
           StartMoveIter(EncReading(e), p)
    \/ StartMoveFail
    \/ SegmentIter(FALSE, NoPacket, EncReading(NoEnc), FALSE)
    \/ SegmentEnd

SpecStart == Init /\ [][StartNext]_vars

\* readings of an iteration of the tendon controller: the target of the
\* joint in encoder ticks, speeds above and below 32 * |delta|, encoder
\* positions up to 4 * 4 ticks around the target, motor positions
EncoderTargets == {0}
TargetSpeeds == {32, 500}
EncoderReadings == -16 .. 16
MotorReadings == {-50, 0, 50}

\* main(), one pass of the control loop with the pause register at 2
PositionControlStep ==
    \E t \in EncoderTargets, v \in TargetSpeeds, enc \in EncoderReadings,
       mot \in MotorReadings :
        /\ nanoj' = PositionControl(nanoj, t, v, enc, mot)
        /\ UNCHANGED <<devVars, hostVars, serialVars, motionSequence, head, wire, wireMotion,
                       chat, transition, driver, startMove, auxVars>>

SpecTendon == Init /\ [][PositionControlStep]_vars

\* packets of a playback that loops: sequences of two and of three frames,
\* a look-ahead that reaches beyond the frames, PLAY with and without
\* PF_LOOP
LoopPackets ==
    {Packet(CMD_STOP, 0)}
    \cup {[Packet(CMD_PLAY, 1) EXCEPT !.flags = f] : f \in {0, PF_LOOP}}
    \cup {[Packet(CMD_CONFIG, SIZEOF_Config) EXCEPT !.config = Config(n, 1, MaxDuration + 1)] :
              n \in {2, 3}}
    \cup {[Packet(CMD_SAVE_KEYFRAME, SIZEOF_SaveKeyframe) EXCEPT
               !.index = 0, !.keyframe = Keyframe(0, NT_POSITION_BIAS, OC_NOP)]}
    \cup {[Packet(CMD_SAVE_KEYFRAME, SIZEOF_SaveKeyframe) EXCEPT !.index = i, !.keyframe = k] :
              i \in {1, 2}, k \in {Keyframe(1, NT_POSITION_BIAS + 100, OC_SET)}}

LoopNext ==
    \/ PassthroughInit(FALSE)
    \/ \E p \in LoopPackets, e \in EncInputs : Dispatch(p, EncReading(e), FALSE)
    \/ \E dt \in TickInputs : TimerISR(dt)
    \/ \E e \in EncInputs : StartKfIter(EncReading(e), NoPacket, EncReading(NoEnc), FALSE)
    \/ StartKfFail
    \/ \E b \in BOOLEAN, p \in {NoPacket, Packet(CMD_STOP, 0)} :
           SegmentIter(b, p, EncReading(NoEnc), FALSE)
    \/ SegmentEnd
    \/ \E h \in BOOLEAN : SyncPoll(h)

SpecLoop == Init /\ [][LoopNext]_vars

\* motion_feedback(motor_index) for an active axis; encPos: g_encPos of the
\* axis, enc: outcome of nt_encoderPosition
motion_feedback(playing, encPos, enc) ==
    IF playing THEN encPos
    ELSE IF enc.ok THEN enc.value ELSE 0

\* nt_encoderPosition: the motor controller answers with its position, or
\* the read fails
EncoderAnswers == {[ok |-> TRUE, value |-> 1000], [ok |-> FALSE, value |-> 0]}

\* one call of step() in which the feedback position is what the device
\* puts into its FEEDBACK packet (writeFeedbackPacket)
FeedbackStep(enc) ==
    \E wr \in WriteResults, mr \in MotorQuiet :
        HostStep(TRUE, wr, "ZP+2", 0, motion_feedback(Ctx.dev.playing, 0, enc), mr, TRUE)

FeedbackNext ==
    \/ \E enc \in EncoderAnswers : FeedbackStep(enc)
    \/ \E cm \in {hardwareCompliance, noCompliance} : setComplianceMode(cm)
    \/ \E a \in AngleInputs : motionIn(TRUE, a, FALSE, 0)
    \/ LinkChange
    \/ UiDeliver
    \/ DispatchIdleTimeout

SpecFeedback == Init /\ [][FeedbackNext]_vars

\* packets the host writes in the extended mode: STOP with payloads of 0 to
\* MaxPayloadLen bytes, and a packet with a command code that does not exist
PacketInputs ==
    {EncodePacket(CMD_STOP, SubSeq(<<0, 2, 1, 3>>, 1, n)) : n \in 0 .. MaxPayloadLen}
    \cup {EncodePacket(CMD_COUNT, <<>>)}

\* a packet with one byte replaced, or cut short
Damaged(pk) ==
    {[pk EXCEPT ![i] = 1] : i \in 1 .. Len(pk)}
    \cup {SubSeq(pk, 1, n) : n \in {3, Len(pk) - 1}}

HostStrings == PacketInputs \cup UNION {Damaged(pk) : pk \in PacketInputs}

\* the longest end of the bytes sent that begins the INIT packet
RECURSIVE InitProgress(_, _)
InitProgress(log, k) ==
    IF k = 0 THEN 0
    ELSE IF k <= Len(log) /\ SubSeq(log, Len(log) - k + 1, Len(log)) = SubSeq(initPacket, 1, k)
    THEN k
    ELSE InitProgress(log, k - 1)

\* the byte that continues the INIT packet the host is sending
NextInitByte == initPacket[InitProgress(hostLog, Len(initPacket) - 1) + 1]

\* bytes of the host in passthrough: the INIT packet continued or begun, and
\* the first character of a command for a motor controller
PassBytes == {NextInitByte, 255, 35}

\* bytes of the bus: the answer of a motor controller, and a zero byte
BusBytes == {0, 43}

\* the extended mode byte by byte: the host enters it with an INIT packet
\* and writes packets, intact and damaged
SerialNext ==
    \/ UsartRx(NextInitByte)
    \/ MainWake
    \/ MainMatchByte
    \/ MainMatchEnd
    \/ \E bytes \in HostStrings : HostWrites(bytes)
    \/ \E e \in EncInputs : HandleCommandsByte(EncReading(e))
    \/ \E n \in IdleSteps : HandleCommandsTick(n)
SpecSerial == Init /\ [][SerialNext]_vars

\* payloads of the packets given to the decoder: every sequence of 0 to
\* MaxPayloadLen bytes out of a zero, the start byte and the end byte
RECURSIVE PayloadInputs(_)
PayloadInputs(n) ==
    IF n = 0 THEN {<<>>}
    ELSE PayloadInputs(n - 1)
         \cup {Append(pl, b) : pl \in {q \in PayloadInputs(n - 1) : Len(q) = n - 1},
                               b \in {0, 13, 255}}

\* the device in the extended mode, one packet of the host in its buffer
CodecInit ==
    \E c \in 0 .. CMD_COUNT - 1, pl \in PayloadInputs(MaxPayloadLen) :
        DevInitAt("dispatch") /\ HostInit /\ EditInit /\ SerialInitWith(EncodePacket(c, pl))

\* the decoder takes the packet byte by byte
CodecNext == \E e \in EncInputs : HandleCommandsByte(EncReading(e))
SpecCodec == CodecInit /\ [][CodecNext]_vars

\* the passthrough of main() byte by byte, in both directions
PassNext ==
    \/ \E c \in PassBytes : UsartRx(c)
    \/ MainWake
    \/ MainMatchByte
    \/ MainMatchEnd
    \/ \E c \in BusBytes : Usart3Rx(c)
    \/ Usart0Udre
    \/ \E e \in EncInputs : HandleCommandsByte(EncReading(e))
    \/ \E n \in IdleSteps : HandleCommandsTick(n)
SpecPass == Init /\ [][PassNext]_vars

\* entering the extended mode byte by byte, with the answer to INIT followed
\* to the line
InitNext ==
    \/ \E c \in PassBytes : UsartRx(c)
    \/ MainWake
    \/ MainMatchByteWith(TRUE)
    \/ MainMatchEnd
    \/ \E c \in BusBytes : Usart3Rx(c)
    \/ Usart0Udre
SpecInit == Init /\ [][InitNext]_vars

(***************************************************************************)
(* Claims                                                                  *)
(***************************************************************************)
\* a step of the firmware while a sequence is playing (the jump into the
\* bootloader leaves the flag behind; the restart is not such a step)
PlayingStep == g_isPlaying /\ devPc \in {"startkf", "segment", "sync"}

\* C1: while is_playing is true no step changes the in-RAM configuration, the
\* in-RAM keyframe buffer or the persistent store (CONFIG writes, SAVE_KEYFRAME
\* and COMMIT are rejected while playing)
C1_NoWriteWhilePlaying ==
    [][PlayingStep => /\ mem_config' = mem_config
                      /\ g_buffer' = g_buffer
                      /\ g_config_memory' = g_config_memory
                      /\ g_keyframe_memory' = g_keyframe_memory]_vars

\* C2: once the device is playing and a STOP has been processed, the playback
\* routine eventually returns and is_playing (the PLAYING flag of FEEDBACK)
\* becomes false
C2_StopEndsPlayback == (g_isPlaying /\ g_shouldStop) ~> ~g_isPlaying

\* the payload length of the recorded packet is the one its command expects
WellFormed(rx) ==
    CASE rx.command = CMD_SAVE_KEYFRAME -> rx.length = SIZEOF_SaveKeyframe
      [] rx.command = CMD_READ_KEYFRAME -> rx.length = SIZEOF_ReadKeyframe
      [] rx.command = CMD_CONFIG -> rx.length \in {0, SIZEOF_Config}
      [] OTHER -> TRUE

\* the commands the dispatcher leaves unanswered by design
SilentlyIgnored(rx) ==
    \/ rx.command = CMD_RESET
    \/ rx.playing /\ rx.command \in {CMD_SAVE_KEYFRAME, CMD_CONFIG}

\* C3 (as stated): every well-formed packet dispatched, in any state including
\* playing, produces exactly one reply with the same command code
C3_ExactlyOneReply ==
    (rxCmd # NoneObserved /\ WellFormed(rxCmd)) => txLog = <<rxCmd.command>>

\* C3 (amended): a dispatched packet never produces more than one reply and a
\* reply always carries the command code of the packet; a well-formed packet
\* is left unanswered exactly when it is RESET, or SAVE_KEYFRAME or CONFIG
\* received while playing
C3_ReplyMatches ==
    rxCmd # NoneObserved =>
        /\ txLog \in {<<>>, <<rxCmd.command>>}
        /\ WellFormed(rxCmd) => (txLog = <<>> <=> SilentlyIgnored(rxCmd))

\* a SAVE_KEYFRAME of the right length dispatched while playing stayed unanswered
C3_Witness ==
    /\ rxCmd.command = CMD_SAVE_KEYFRAME
    /\ rxCmd.length = SIZEOF_SaveKeyframe
    /\ rxCmd.playing
    /\ g_isPlaying
    /\ txLog = <<>>

\* C8: neither the in-RAM configuration nor the stored one ever has a keyframe
\* count above the capacity of the buffer (MAX_KEYFRAMES + 1 is rejected)
C8_ConfigWithinBuffer ==
    /\ mem_config.num_keyframes <= MAX_KEYFRAMES
    /\ g_config_memory.num_keyframes <= MAX_KEYFRAMES

\* C4: the host keyframe player and the device sequencer are never running
\* at the same time
C4_NeverBothPlaying == ~(kfpActive /\ g_isPlaying)

\* C5: after a step in which serial.write reported 0 bytes the port is closed
\* and the connection state (connected, initialised, extended mode, playing)
\* is cleared
C5_WriteZeroDisconnects ==
    bytesWritten = 0 =>
        /\ ~ri.serialOpen
        /\ ~ri.robotIsConnected
        /\ ~ri.robotIsInitialized
        /\ ~ri.m_isExtendedMode
        /\ ~ri.m_isPlaying

\* C6: the host does not stay connected forever to a device that does not answer
C6_SilentDeviceDisconnects == []<>(linkUp \/ ~ri.robotIsConnected)

\* C7: extended mode is active only while the robot is initialised
C7_ExtendedImpliesInitialised == ri.m_isExtendedMode => ri.robotIsInitialized

\* C9: in every transfer each frame after the initial one goes over the wire
\* and into the device buffer with a duration above 0
C9_FramesHaveDuration ==
    \A i \in 2 .. Len(wire) :
        /\ wire[i].duration > 0
        /\ (i - 1) \in KfSlots => g_buffer[i - 1].duration > 0

\* C10: every tick value of every axis slot of the SAVE_KEYFRAME packets the
\* host writes lies in 0 .. 2 * NT_POSITION_BIAS
C10_TicksInRange ==
    \A i \in 1 .. Len(wire) : \A j \in Axes :
        0 <= wire[i].ticks[j] /\ wire[i].ticks[j] <= 2 * NT_POSITION_BIAS

\* C11: every joint angle sent in a MOTION packet lies within
\* [lower_limit, upper_limit] when it is converted to ticks, whatever set the
\* target (motionIn, stopRobot, the end of a playback, a compliance hand-over)
C11_AnglesClamped ==
    wireMotion # NoMotion =>
        /\ Joint.lower_limit <= wireMotion.angle
        /\ wireMotion.angle <= Joint.upper_limit
        /\ TicksOf(Joint.lower_limit) <= wireMotion.ticks
        /\ wireMotion.ticks <= TicksOf(Joint.upper_limit)

\* a MOTION packet at the upper limit while the joint was read beyond it: the
\* target was taken from the feedback and cut back before the conversion
C11_Witness ==
    /\ wireMotion # NoMotion
    /\ wireMotion.angle = Joint.upper_limit
    /\ ri.rxJointAngles > Joint.upper_limit
    /\ ri.m_isExtendedMode

\* C12: every velocity sent in a MOTION packet derives from a joint velocity
\* within [0, SERVOSPEEDMAX]
C12_VelocitiesClamped ==
    wireMotion # NoMotion =>
        /\ 0 <= wireMotion.jointVelocity
        /\ wireMotion.jointVelocity <= SERVOSPEEDMAX * 1000
        /\ wireMotion.velocity <= VelocityOf(SERVOSPEEDMAX * 1000)

\* a whole packet: start byte, version, known command, length, that many
\* payload bytes, their checksum, the end byte
IsPacket(t) ==
    /\ Len(t) >= 6
    /\ Len(t) = 6 + t[4]
    /\ t[1] = 255 /\ t[2] = VERSION /\ t[3] < CMD_COUNT
    /\ t[Len(t) - 1] = 255 - ((VERSION + t[3] + t[4] + SumPayload(SubSeq(t, 5, 4 + t[4]))) % 256)
    /\ t[Len(t)] = 13

\* the beginning of a packet: no byte so far differs from what a packet has there
IsPacketStart(t) ==
    /\ Len(t) >= 1 => t[1] = 255
    /\ Len(t) >= 2 => t[2] = VERSION
    /\ Len(t) >= 3 => t[3] < CMD_COUNT
    /\ Len(t) >= 4 => Len(t) <= 6 + t[4]
    /\ Len(t) >= 4 /\ Len(t) >= 5 + t[4] =>
          t[5 + t[4]] = 255 - ((VERSION + t[3] + t[4] + SumPayload(SubSeq(t, 5, 4 + t[4]))) % 256)
    /\ Len(t) >= 4 /\ Len(t) >= 6 + t[4] => t[6 + t[4]] = 13

\* C13: the decoder calls handleCommand only when the bytes taken since
\* PS_START are, in order, 0xFF, the version, a command below CMD_COUNT, the
\* length, that many payload bytes, the matching checksum and 0x0D, and it
\* passes on this command, length and payload; a byte that differs from what
\* a packet has at its place puts the decoder back to PS_START without a call
C13_DispatchOnlyWholePackets ==
    /\ decoded # NoDispatch =>
          /\ IsPacket(rxTrace)
          /\ decoded = [command |-> rxTrace[3], length |-> rxTrace[4],
                        payload |-> SubSeq(rxTrace, 5, 4 + rxTrace[4])]
          /\ parser_state = PS_START
    /\ rxTrace # <<>> /\ ~IsPacketStart(rxTrace) =>
          parser_state = PS_START /\ decoded = NoDispatch
    /\ rxTrace # <<>> /\ IsPacketStart(rxTrace) /\ ~IsPacket(rxTrace) =>
          parser_state # PS_START /\ decoded = NoDispatch

\* a STOP packet with a payload of MaxPayloadLen bytes was dispatched
C13_Witness ==
    /\ decoded # NoDispatch
    /\ decoded.command = CMD_STOP
    /\ decoded.length = MaxPayloadLen
    /\ dispatchCount = 2

C18_IdleTimeout ==
    [][devPc = "dispatch" =>
          /\ (com_buf_to_bot # <<>> /\ com_buf_to_bot' = Tail(com_buf_to_bot)) =>
                IF decoded' # NoDispatch
                THEN ticks_since_last_msg' = 0
                ELSE ticks_since_last_msg' = ticks_since_last_msg /\ devPc' = "dispatch"
          /\ (com_buf_to_bot = <<>> /\ ticks_since_last_msg' # ticks_since_last_msg
                /\ devPc' = "dispatch") =>
                ticks_since_last_msg' < IDLE_LIMIT
          /\ (com_buf_to_bot = <<>> /\ com_buf_to_bot' = <<>>
                /\ ticks_since_last_msg = IDLE_LIMIT - 1) => devPc' = "passthrough"
          /\ (devPc' = "passthrough" /\ ~g_extShouldQuit) =>
                ticks_since_last_msg = IDLE_LIMIT - 1
      ]_vars

\* the device is back in the passthrough after packets and the idle time
C18_Witness ==
    /\ devPc = "passthrough"
    /\ initCount = 1
    /\ dispatchCount = 2
    /\ decoded = NoDispatch
    /\ rxTrace # <<>>

\* the bytes of the host that main() has taken from the buffer
Consumed == SubSeq(hostLog, 1, Len(hostLog) - Len(com_buf_to_bot))

\* a pass of the do-while of the matcher
MatchStep ==
    /\ g_passthrough /\ mainPc = "match" /\ com_buf_to_bot # <<>>
    /\ com_buf_to_bot' = Tail(com_buf_to_bot) \/ devPc' = "dispatch"

C16_SplitInitDetected ==
    (hostLog = initPacket /\ com_buf_to_bot = <<>> /\ mainPc = "wait") => initCount >= 1

\* what a matcher that keeps its held bytes between reads writes to the bus:
\* everything but the INIT packets and the held bytes at the end
RECURSIVE ForwardedOf(_, _, _)
ForwardedOf(log, held, fwd) ==
    IF log = <<>> THEN fwd
    ELSE IF Head(log) = initPacket[held + 1]
    THEN ForwardedOf(Tail(log), (held + 1) % Len(initPacket), fwd)
    ELSE ForwardedOf(Tail(log), 0, fwd \o SubSeq(initPacket, 1, held) \o <<Head(log)>>)

\* C17: in the passthrough the bytes of the host, other than INIT packets,
\* reach the bus and the bytes of the bus reach the host, each once,
\* unchanged and in the order of arrival
C17_PassthroughForwardsEveryByte ==
    /\ (g_passthrough /\ mainPc = "wait" /\ com_buf_to_bot = <<>>) =>
          uart_rob = ForwardedOf(hostLog, 0, <<>>)
    /\ uart_pc \o com_buf_to_pc = busLog

\* the packets of a complete upload of the frames fr for the command cmd
FullUpload(fr, cmd) ==
    <<ChatPacket(CMD_CONFIG, 0, extSendConfig(Len(fr)))>>
    \o [i \in 1 .. Len(fr) |-> ChatPacket(CMD_SAVE_KEYFRAME, i - 1, fr[i])]
    \o <<IF cmd = KC_COMMIT THEN ChatPacket(CMD_COMMIT, 0, 0)
         ELSE ChatPacket(CMD_PLAY, IF cmd = KC_LOOP THEN PF_LOOP ELSE 0, 0)>>

\* exchange k of the last upload was answered with the expected reply
Acknowledged(k) == chat.replies[k] = ExpectedReply(chat.run.sent[k].command)

\* the keyframeTransferFinished signals of the last upload
Outcomes ==
    {k \in 1 .. Len(chat.run.sig) :
        chat.run.sig[k] \in {"keyframeTransferFinished(true)",
                             "keyframeTransferFinished(false)"}}

\* C19: an upload emits keyframeTransferFinished exactly once; the packets it
\* has written are a beginning of CONFIG, SAVE_KEYFRAME 0, 1, ... and COMMIT
\* or PLAY; every exchange but the last one written was acknowledged, and it
\* reports success only if all packets were written and all acknowledged
C19_OneAggregateOutcome ==
    chat # NoChat =>
        LET sent == chat.run.sent
            full == FullUpload(chat.frames, chat.cmd)
        IN  /\ Cardinality(Outcomes) = 1
            /\ Len(sent) <= Len(full)
            /\ sent = SubSeq(full, 1, Len(sent))
            /\ \A k \in 1 .. Len(sent) - 1 : Acknowledged(k)
            /\ (\E k \in Outcomes : chat.run.sig[k] = "keyframeTransferFinished(true)")
                   => /\ sent = full
                      /\ \A k \in 1 .. Len(sent) : Acknowledged(k)

\* an upload of three frames stops at SAVE_KEYFRAME 0, whose answer has a
\* correct checksum and is not the expected reply, and reports a failure
C19_Witness ==
    /\ Len(chat.frames) = 3
    /\ Len(chat.run.sent) = 2
    /\ chat.run.sent[2].command = CMD_SAVE_KEYFRAME
    /\ extCommandReads(CMD_SAVE_KEYFRAME, chat.replies[2])
    /\ chat.run.sig = <<"message", "keyframeTransferFinished(false)">>

\* the store is written: motion_commit is the only writer of the EEPROM
CommitStep ==
    <<g_config_memory, g_keyframe_memory>>' # <<g_config_memory, g_keyframe_memory>>

\* the device starts again: main() runs motion_loadSequence
RebootStep == devPc = "bootloader" /\ devPc' = "passthrough"

\* C20: a write to the store puts there the configuration and the first
\* num_keyframes frames of the buffer, and a restart with a stored configuration of up to
\* MAX_KEYFRAMES frames brings exactly that configuration and those frames
\* back into mem_config and g_buffer
C20_CommitRebootRoundTrip ==
    [][/\ CommitStep =>
            /\ g_config_memory' = mem_config
            /\ \A i \in KfSlots :
                   i < mem_config.num_keyframes => g_keyframe_memory'[i] = g_buffer[i]
       /\ (RebootStep /\ g_config_memory.num_keyframes <= MAX_KEYFRAMES) =>
            /\ mem_config' = g_config_memory
            /\ \A i \in KfSlots :
                   i < g_config_memory.num_keyframes => g_buffer'[i] = g_keyframe_memory[i]]_vars

(***************************************************************************)
(* Compliance transitions                                                  *)
(***************************************************************************)
\* a step() in which handle_checkComplianceMode found a change pending and
\* returned
TransitionReturns ==
    /\ ComplianceStep
    /\ transition'.outcome \in {"exit", "changed"}

\* the step surfaced an error: the red message of the transition, or the
\* signal that the robot got disconnected
ErrorSurfaced ==
    \/ \E k \in DOMAIN transition'.msg : transition'.msg[k] = "red"
    \/ /\ Len(uiQueue') > Len(uiQueue)
       /\ \E k \in (Len(uiQueue) + 1)..Len(uiQueue') : uiQueue'[k] = "robotDisconnected"

\* C21: when handle_checkComplianceMode returns from a pending compliance
\* transition, the reported mode equals the requested mode or an error was
\* surfaced to the user; also when an axis does not acknowledge, when
\* leaving or entering extended mode fails, and when the link is lost
C21_TransitionOutcome ==
    [][TransitionReturns =>
          ri'.complianceMode = ri'.requestedComplianceMode \/ ErrorSurfaced]_vars

\* a step() in which the currents of the motors were switched to the mode to
TransitionPerformed(to) ==
    /\ ComplianceStep
    /\ ri.requestedComplianceMode = to
    /\ transition'.outcome = "changed"

C23_FreshReadingOnly ==
    [][\A enc \in EncoderAnswers :
          (~enc.ok /\ ~Ctx.dev.playing /\ FeedbackStep(enc))
              => ri'.rxJointAngles = ri.rxJointAngles]_vars

(***************************************************************************)
(* The INIT packet                                                         *)
(***************************************************************************)
\* the last n bytes of a log
LastBytes(log, n) == IF Len(log) < n THEN log ELSE SubSeq(log, Len(log) - n + 1, Len(log))

\* the device is in the extended mode
InitAnswered == devPc = "dispatch"

\* main(): the pass of the matcher that completes the pattern
InitMatched == g_passthrough /\ devPc' = "dispatch"

\* the bytes of the host that the matcher has taken, the one of this pass included
MatcherInput == SubSeq(hostLog, 1, Len(hostLog) - Len(com_buf_to_bot) + 1)

\* C24 as stated: the INIT packet of the host is FF 0A 00 00 F1 0D and the
\* device acknowledges with the same six bytes
C24_InitBytesF1 ==
    [][InitMatched =>
        /\ ExpectedReply(CMD_INIT) = <<255, 10, 0, 0, 241, 13>>
        /\ LastBytes(MatcherInput, 6) = <<255, 10, 0, 0, 241, 13>>
        /\ LastBytes(uart_pc', 6) = <<255, 10, 0, 0, 241, 13>>]_vars

\* C24, amended: the INIT packet of the host is FF 0A 00 00 F5 0D, the
\* checksum byte being the complement of version + command + length, and
\* the device acknowledges with the same six bytes
C24_InitBytesF5 ==
    [][InitMatched =>
        /\ ExpectedReply(CMD_INIT) = <<255, 10, 0, 0, 245, 13>>
        /\ LastBytes(MatcherInput, 6) = <<255, 10, 0, 0, 245, 13>>
        /\ LastBytes(uart_pc', 6) = <<255, 10, 0, 0, 245, 13>>]_vars

\* the device entered the extended mode on the packet of the host, and its
\* answer followed an answer of a motor controller on the line
C24_Witness ==
    /\ InitAnswered
    /\ LastBytes(hostLog, 6) = ExpectedReply(CMD_INIT)
    /\ Len(uart_pc) > 6
    /\ LastBytes(uart_pc, 6) = LastBytes(hostLog, 6)

(***************************************************************************)
(* Look-ahead velocity                                                     *)
(***************************************************************************)
\* |1000 * (dest - encoder) / lookahead| * enc_to_mot / 256
StatedVelocity(d) ==
    (Abs(CDiv(1000 * (d.dest - d.encPos), d.lookahead)) * d.enc_to_mot) \div 256

\* C25: in look-ahead mode the velocity handed to the motor driver is the
\* stated velocity clamped into [100, enc_to_mot * 7000 / 256], and lies
\* inside that interval, for every enc_to_mot of the configuration
C25_LookAheadVelocity ==
    driver # NoDriver =>
        LET lo == 100
            hi == (driver.enc_to_mot * 7000) \div 256
            v == StatedVelocity(driver)
        IN  /\ driver.velocity = IF v < lo THEN lo ELSE IF v > hi THEN hi ELSE v
            /\ lo <= driver.velocity
            /\ driver.velocity <= hi

(***************************************************************************)
(* The move to the start keyframe                                          *)
(***************************************************************************)
\* motion_doStartKeyframe() returns in this step
StartMoveReturns == devPc = "startkf" /\ devPc' \notin {"startkf", "bootloader"}

\* C26: the move to the start keyframe succeeds only after the position of
\* keyframe 0 was observed as reached in SAFETY_COUNT consecutive
\* iterations; with the deadline of START_TIMEOUT ms passed or a stop
\* requested the velocity of the active axes is set to 0, failure is
\* reported and no segment is played
C26_StartMove ==
    [][StartMoveReturns =>
          IF ~g_reached /\ ~g_shouldStop
          THEN /\ startMove'.result = "reached"
               /\ startMove'.streak >= SAFETY_COUNT
               /\ ~g_shouldStop'
          ELSE /\ startMove'.result = "failed"
               /\ startMove'.velocity = 0
               /\ g_shouldStop'
               /\ ~g_isPlaying'
               /\ devPc' = "dispatch"]_vars

\* the first segment is played after a move that saw the start position in
\* ten consecutive iterations
C26_Witness ==
    /\ startMove.result = "reached"
    /\ startMove.streak = SAFETY_COUNT
    /\ devPc = "segment"
    /\ seg_i = 1

\* C27: the first segment starts only after the arm was observed within 50
\* ticks of keyframe 0 of the buffer that is played, committed or not
C27_StartFromBuffer ==
    [][(devPc \in {"dispatch", "startkf"} /\ devPc' = "segment") => startMove'.observed]_vars

(***************************************************************************)
(* Looping sequences                                                       *)
(***************************************************************************)
\* the frames of a look-ahead follow each other, the last frame being
\* followed by frame 1, and frame 0 is not among them
WindowWraps(w, n) ==
    \A x \in 1 .. Len(w) :
        /\ w[x] \in 1 .. n - 1
        /\ x < Len(w) => w[x + 1] = IF w[x] = n - 1 THEN 1 ELSE w[x] + 1

\* the look-ahead of an iteration of the current segment, with the button
\* pressed or not
SegmentWindow(button) ==
    LET delta == g_delta + mem_config.lookahead
    IN  LookAheadWindow(seg_i, delta, button, force_loop, mem_config,
                        LookAheadFuel(delta, mem_config))

\* C28: with num_keyframes >= 2 the segments played and the frames of the
\* look-ahead lie in 1 .. num_keyframes - 1; the segment after the last one
\* is segment 1, and the look-ahead goes on from the last frame with frame 1
C28_LoopWrap ==
    /\ [](devPc = "segment" /\ mem_config.num_keyframes >= 2 =>
             /\ seg_i \in 1 .. mem_config.num_keyframes - 1
             /\ \A button \in BOOLEAN :
                    WindowWraps(SegmentWindow(button), mem_config.num_keyframes))
    /\ [][(devPc \in {"segment", "sync"} /\ devPc' = "segment"
             /\ (devPc = "sync" \/ g_reached) /\ mem_config.num_keyframes >= 2) =>
                seg_i' = IF devPc = "sync" \/ seg_i = mem_config.num_keyframes - 1
                         THEN 1 ELSE seg_i + 1]_vars

\* a looping sequence of three frames plays its last segment, with a
\* look-ahead that has gone on from frame 2 with frame 1
C28_Witness ==
    /\ devPc = "segment"
    /\ force_loop
    /\ mem_config.num_keyframes = 3
    /\ seg_i = 2
    /\ Len(SegmentWindow(FALSE)) >= 2
    /\ SegmentWindow(FALSE)[2] = 1

(***************************************************************************)
(* Hold of the tendon controller                                           *)
(***************************************************************************)
Sign(x) == IF x > 0 THEN 1 ELSE IF x < 0 THEN -1 ELSE 0

\* C29: hold is entered only with |delta| < 2, and the target latched is
\* the motor position moved by 4 in the direction of the sign of delta; in
\* hold the target stays as it is while |delta| < 3, and hold is left
\* exactly with |delta| >= 3
C29_Hold ==
    [][/\ (nanoj.holdingPosition = 0 /\ nanoj'.holdingPosition = 1) =>
             /\ Abs(nanoj'.delta) < 2
             /\ nanoj'.driveTarget = nanoj'.motorActualPosition + 4 * Sign(nanoj'.delta)
       /\ (nanoj.holdingPosition = 1 /\ Abs(nanoj'.delta) < 3) =>
             /\ nanoj'.holdingPosition = 1
             /\ nanoj'.driveTarget = nanoj.driveTarget
       /\ nanoj.holdingPosition = 1 =>
             (nanoj'.holdingPosition = 0 <=> Abs(nanoj'.delta) >= 3)]_vars

\* C30: in an iteration of the position control that does not hold, the
\* target given to the motor is at least 5 steps away from the motor
\* position
C30_NoZeroDelta ==
    (nanoj.started /\ nanoj.holdingPosition = 0) =>
        Abs(nanoj.driveTarget - nanoj.motorActualPosition) >= 5

\* an iteration with the encoder 2 steps of delta from the target, not
\* holding: the motor is sent 5 steps on
C30_Witness ==
    /\ nanoj.started
    /\ nanoj.holdingPosition = 0
    /\ nanoj.delta = 2
    /\ nanoj.driveTarget = nanoj.motorActualPosition + 5
    /\ nanoj.motorActualPosition = 50

\* C34: every compliance transition terminates: when an axis never echoes
\* its commands the retry loop is abandoned after the timeout and the
\* transport thread is back in its step loop
C34_TransitionTerminates ==
    [][ComplianceStep => transition'.outcome \in {"none", "exit", "changed"}]_vars

(***************************************************************************)
(* The ring buffer between an interrupt and the main loop                  *)
(***************************************************************************)

RingFrame ==
    UNCHANGED <<devVars, hostVars, serialVars, motionSequence, head, wire, wireMotion,
                chat, transition, driver, startMove, nanoj, resync, player, calls, bringup, upload, bus>>

\* ISR(USART0_RX_vect): the producer
RingPut(c) == ring' = ring_put(ring, c) /\ RingFrame

\* the main loop asks available()
RingAvailable == ring' = ring_available(ring) /\ RingFrame

\* the main loop calls get()
RingGet == ring' = ring_get(ring) /\ RingFrame

\* the main loop calls flush()
RingFlush == ring' = ring_flush(ring) /\ RingFrame

RingNextStep ==
    \/ \E c \in RingBytes : RingPut(c)
    \/ RingAvailable
    \/ RingGet
    \/ RingFlush

SpecRing == Init /\ [][RingNextStep]_vars

\* the bytes between m_read_idx and m_write_idx, oldest first
RECURSIVE RingStored(_, _)
RingStored(b, i) ==
    IF i = b.m_write_idx THEN <<>> ELSE <<b.m_buf[i]>> \o RingStored(b, RingNext(i))

\* C31: in every interleaving of put with available, get and flush the
\* buffer holds exactly the bytes put() accepted since the last flush and
\* get() has not returned, in the order of their arrival; a get() after
\* available() was true returns the oldest of them and takes only that one;
\* a put() is refused only by a full buffer, and then nothing stored changes
C31_RingFifo ==
    /\ [](/\ RingStored(ring, ring.m_read_idx) = ring.owed
          /\ (ring.avail => ring.owed # <<>>)
          /\ (ring.got.avail => /\ ring.got.owed # <<>>
                                /\ ring.got.c = Head(ring.got.owed)))
    /\ [][/\ (\E c \in RingBytes : RingPut(c)) =>
               IF Len(ring.owed) = RingSize - 1
               THEN /\ ring'.dropped
                    /\ ring'.m_buf = ring.m_buf
                    /\ ring'.m_read_idx = ring.m_read_idx
                    /\ ring'.m_write_idx = ring.m_write_idx
                    /\ ring'.owed = ring.owed
               ELSE /\ ~ring'.dropped
                    /\ Len(ring'.owed) = Len(ring.owed) + 1
           /\ (RingGet /\ ring.avail) => ring'.owed = Tail(ring.owed)]_vars

\* the indices have wrapped, the buffer is full, a byte was dropped and the
\* get() after available() has returned the oldest byte, which is not the
\* newest
C31_Witness ==
    /\ ring.m_write_idx < ring.m_read_idx
    /\ Len(ring.owed) = RingSize - 2
    /\ ring.got.avail
    /\ Len(ring.got.owed) = RingSize - 1
    /\ ring.got.c = 1
    /\ ring.got.owed[RingSize - 1] = 2

(***************************************************************************)
(* Host: the reads of extCommand                                           *)
(***************************************************************************)

\* bytes left in the receive buffer of the host before the reply: fewer than
\* sizeof(Answer), none of them or some of them bytes of a header
StrayBytes == {<<>>, <<7>>, <<13>>, <<255>>, <<7, 7>>, <<255, VERSION>>, <<7, 13, 7>>,
               <<7, 7, 7, 7>>, <<255, VERSION, 7, 13>>, <<7, 7, 7, 7, 7>>}

ResyncCommands == {CMD_INIT, CMD_COMMIT, CMD_PLAY, CMD_STOP}

\* extCommand for a SimplePacket: the stray bytes are in the port, the
\* device answers with the packet of the command; first bytes of stray and
\* answer are there at the first read, the others at the second
ExtCommandRun ==
    \E cmd \in ResyncCommands, stray \in StrayBytes :
    \E first \in 0 .. Len(stray) + SIZEOF_SimplePacket :
        LET stream == stray \o ExpectedReply(cmd)
            r == extCommandLoop(cmd, <<>>, SubSeq(stream, 1, first),
                                <<SubSeq(stream, first + 1, Len(stream))>>, 0)
        IN  /\ resync' = [cmd |-> cmd, stray |-> stray, first |-> first,
                          result |-> IF r.ok THEN "ok" ELSE r.why,
                          answer |-> r.answer, reads |-> r.reads]
            /\ UNCHANGED <<devVars, hostVars, serialVars, motionSequence, head, wire,
                           wireMotion, chat, transition, driver, startMove, nanoj, ring, player, calls, bringup, upload, bus>>

SpecResync == Init /\ [][ExtCommandRun]_vars

\* C32: with fewer than sizeof(Answer) stray bytes before the reply,
\* extCommand drops them and returns the complete reply with its correct
\* checksum; it gives up only after its read attempts are used
C32_Resync ==
    (resync.result # "none" /\ Len(resync.stray) < SIZEOF_SimplePacket) =>
        /\ resync.result \in {"ok", "timeout"}
        /\ resync.result = "timeout" => resync.reads = READ_ATTEMPTS
        /\ resync.result = "ok"
        /\ resync.answer = ExpectedReply(resync.cmd)

(***************************************************************************)
(* Host: KeyframePlayer::step                                              *)
(***************************************************************************)

\* the longest slider position followed, in microseconds
MaxSlider == 3000000

\* time between two calls of step(), in microseconds: the period of the
\* timer (1000 / MOTIONSAMPLERATE ms) and delays of the event loop
StepTimes == {20000, 400000, 1500000}

\* item->absoluteTime = current->absoluteTime + item->relativeTime
RECURSIVE absoluteTime(_, _)
absoluteTime(items, k) ==
    IF k = 1 THEN items[1].relativeTime
    ELSE absoluteTime(items, k - 1) + items[k].relativeTime

\* step(): "while (current->next && current->next->absoluteTime <
\* sliderPosition) current = current->next;"
RECURSIVE Advance(_, _, _)
Advance(items, cur, pos) ==
    IF cur < Len(items) /\ absoluteTime(items, cur + 1) < pos
    THEN Advance(items, cur + 1, pos) ELSE cur

\* step() at the end of a looped timeline that keeps the slider position
WrapSlider_mut(pos, last) == pos

\* step(): "sliderPosition = sliderPosition - current->absoluteTime"
WrapSlider(pos, last) == pos - last

\* KeyframePlayer::step after timePassed microseconds
KeyframePlayer_step(p, timePassed) ==
    LET pos == p.sliderPosition + timePassed
        cur == Advance(p.items, p.current, pos)
    IN  IF cur = Len(p.items)
        THEN IF p.looped
             THEN [p EXCEPT !.sliderPosition = WrapSlider(pos, absoluteTime(p.items, cur)),
                            !.current = 1, !.sample = p.items[cur].angle, !.emitted = 1]
             ELSE [p EXCEPT !.sliderPosition = pos, !.current = cur, !.active = FALSE,
                            !.sample = p.items[cur].angle, !.emitted = 1,
                            !.finished = p.finished + 1]
        ELSE [p EXCEPT !.sliderPosition = pos, !.current = cur,
                       !.sample = p.items[cur + 1].angle, !.emitted = 1]

PlayerFrame ==
    UNCHANGED <<devVars, hostVars, serialVars, motionSequence, head, wire, wireMotion,
                chat, transition, driver, startMove, nanoj, ring, resync, calls, bringup, upload, bus>>

\* motion sequences of two keyframes and more
PlayerSequences == UNION {[1 .. n -> KeyframeInputs] : n \in 2 .. MaxSeq}

\* on_playButton_clicked without a robot (lp = FALSE) and
\* on_loopButton_clicked (lp = TRUE): looped is set, playTheseFrames builds
\* the timeline, start() starts the timer
PlayerStart(keyframes, lp) ==
    /\ ~player.active
    /\ player' = [items |-> playTheseFrames(keyframes, lp, player.items), current |-> 1,
                  sliderPosition |-> 0, looped |-> lp, active |-> TRUE,
                  sample |-> player.sample, emitted |-> 0, finished |-> 0]
    /\ PlayerFrame

\* the buttons while the player plays: keyframePlayer.stop()
PlayerStop ==
    /\ player.active
    /\ player' = [player EXCEPT !.active = FALSE, !.emitted = 0]
    /\ PlayerFrame

\* the timeout of the timer calls step(); a stopped timer does not fire
PlayerStep(timePassed) ==
    /\ player.active
    /\ player.sliderPosition + timePassed <= MaxSlider
    /\ player' = KeyframePlayer_step(player, timePassed)
    /\ PlayerFrame

PlayerNext ==
    \/ \E kfs \in PlayerSequences, lp \in BOOLEAN : PlayerStart(kfs, lp)
    \/ PlayerStop
    \/ \E dt \in StepTimes : PlayerStep(dt)

SpecPlayer == Init /\ [][PlayerNext]_vars

\* step() finds the slider position past the last item
Overrun(dt) ==
    /\ PlayerStep(dt)
    /\ absoluteTime(player.items, Len(player.items)) < player.sliderPosition + dt

\* C33: when the slider position overruns the last item of a timeline of two
\* items or more, a playback that is not looped emits one final sample,
\* signals finished() once and is stopped, and no sample follows; a looped
\* playback never signals finished(), takes the absolute time of the last
\* item from the slider position and goes on from the head
C33_EndOfTimeline ==
    /\ [](Len(player.items) >= 2 =>
            /\ player.finished <= 1
            /\ player.looped => player.finished = 0
            /\ player.finished = 1 => ~player.active)
    /\ [][\A dt \in StepTimes : (Overrun(dt) /\ Len(player.items) >= 2) =>
              IF player.looped
              THEN /\ player'.active
                   /\ player'.emitted = 1
                   /\ player'.current = 1
                   /\ player'.sliderPosition =
                          player.sliderPosition + dt
                          - absoluteTime(player.items, Len(player.items))
              ELSE /\ ~player'.active
                   /\ player'.emitted = 1
                   /\ player'.finished = 1
                   /\ player'.sample = player.items[Len(player.items)].angle]_vars
    /\ [][(~player.active /\ ~player'.active) => player' = player]_vars

\* a looped playback has wrapped and plays on from the head with a slider
\* position that is not 0
C33_Witness ==
    /\ player.looped /\ player.active
    /\ Len(player.items) >= 3
    /\ player.current = 1
    /\ player.emitted = 1
    /\ player.sliderPosition > 0
    /\ player.sample = player.items[Len(player.items)].angle

(***************************************************************************)
(* Device: activations of the playback routines                            *)
(***************************************************************************)

\* PLAY packets followed
MaxPlays == 3

\* motion_runSequence up to its do-while: the flags are set, and
\* motion_doStartKeyframe is called when the robot is not at the start
\* keyframe
motion_runSequence_enter(c, inStart) ==
    [c EXCEPT !.g_shouldStop = FALSE, !.g_isPlaying = TRUE,
              !.stack = IF inStart THEN Append(c.stack, "run")
                        ELSE c.stack \o <<"run", "start">>]

\* handleCommand, case CMD_PLAY: the answer is written, then
\* "if(!motion_isPlaying()) motion_runSequence(...)"
handlePlay(c, inStart) ==
    LET a == [c EXCEPT !.plays = c.plays + 1, !.acks = c.acks + 1]
    IN  IF ~a.g_isPlaying
        THEN [motion_runSequence_enter(a, inStart) EXCEPT !.runs = a.runs + 1]
        ELSE a

\* main(), "if(io_button())" with no routine running: the first press
\* initialises, a later one moves to the start keyframe or runs the sequence
mainButton(c, inStart, inStartAgain) ==
    IF ~c.isInitialized THEN [c EXCEPT !.isInitialized = TRUE]
    ELSE IF ~inStart THEN [c EXCEPT !.stack = <<"start">>]
    ELSE motion_runSequence_enter(c, inStartAgain)

\* the innermost routine returns.  motion_doStartKeyframe returns to
\* motion_runSequence (which goes on, or returns at once when the start
\* keyframe was not reached) or to main(); motion_runSequence clears
\* g_isPlaying
routineReturns(c, reached) ==
    LET n == Len(c.stack)
        below == SubSeq(c.stack, 1, n - 1)
    IN  IF c.stack[n] = "run"
        THEN [c EXCEPT !.stack = below, !.g_isPlaying = FALSE]
        ELSE IF n > 1 /\ c.stack[n - 1] = "run"
        THEN IF reached
             THEN [c EXCEPT !.stack = below, !.g_shouldStop = FALSE]
             ELSE [c EXCEPT !.stack = SubSeq(c.stack, 1, n - 2), !.g_shouldStop = TRUE,
                            !.g_isPlaying = FALSE]
        ELSE [c EXCEPT !.stack = below]

CallsFrame ==
    UNCHANGED <<devVars, hostVars, serialVars, motionSequence, head, wire, wireMotion,
                chat, transition, driver, startMove, nanoj, ring, resync, player, bringup, upload, bus>>

\* the start button is pressed while main() is in its loop
ButtonPressed(inStart, inStartAgain) ==
    /\ calls.stack = <<>>
    /\ calls' = mainButton(calls, inStart, inStartAgain)
    /\ CallsFrame

\* a PLAY packet is parsed by cmd_input: in handleCommands, or in the poll
\* of the routine that runs
PlayHandled(inStart) ==
    /\ calls.plays < MaxPlays
    /\ calls' = handlePlay(calls, inStart)
    /\ CallsFrame

\* a STOP packet: motion_stop()
StopHandled ==
    /\ ~calls.g_shouldStop
    /\ calls' = [calls EXCEPT !.g_shouldStop = TRUE]
    /\ CallsFrame

\* the innermost routine comes to its end: motion_doStartKeyframe with the
\* start keyframe reached, or after its deadline or a stop
RoutineEnds(reached) ==
    /\ calls.stack # <<>>
    /\ (calls.stack[Len(calls.stack)] = "start" /\ reached) => ~calls.g_shouldStop
    /\ calls' = routineReturns(calls, reached)
    /\ CallsFrame

CallsNext ==
    \/ \E inStart \in BOOLEAN, inStartAgain \in BOOLEAN : ButtonPressed(inStart, inStartAgain)
    \/ \E inStart \in BOOLEAN : PlayHandled(inStart)
    \/ StopHandled
    \/ \E reached \in BOOLEAN : RoutineEnds(reached)

SpecCalls == Init /\ [][CallsNext]_vars

\* C35: a PLAY packet handled while a playback routine runs is answered and
\* starts no run inside it, so that never more than one motion_runSequence,
\* with the motion_doStartKeyframe it calls, or one motion_doStartKeyframe
\* of the button is in progress
C35_OneActivation ==
    /\ [](calls.stack \in {<<>>, <<"start">>, <<"run">>, <<"run", "start">>})
    /\ [][(\E inStart \in BOOLEAN : PlayHandled(inStart)) =>
              /\ calls'.acks = calls.acks + 1
              /\ calls.stack # <<>> => calls'.stack = calls.stack]_vars

(***************************************************************************)
(* Host: initializeRobot() of the user interface thread and step()         *)
(***************************************************************************)

\* RobotInterface::initializeRobot with the robot connected
initializeRobot(b) ==
    [b EXCEPT !.isReset = [m \in Motors |-> FALSE],
              !.isInitialized = [m \in Motors |-> FALSE], !.robotIsReset = FALSE,
              !.robotIsInitialized = FALSE, !.doInitialize = TRUE,
              !.doCheckInitialization = FALSE, !.emitted = FALSE]

\* handle_robotReset: P0 to every motor that is not reset; answered[m]: the
\* echo of motor m is read
robotReset(b, answered) ==
    LET sent == {m \in Motors : ~b.isReset[m]}
    IN  [b EXCEPT !.axis = [m \in Motors |-> IF m \in sent THEN 0 ELSE b.axis[m]],
                  !.fresh = [m \in Motors |-> IF m \in sent THEN FALSE ELSE b.fresh[m]],
                  !.isReset = [m \in Motors |-> b.isReset[m] \/ answered[m]],
                  !.robotIsReset = \A m \in Motors : b.isReset[m] \/ answered[m]]

\* the for loop of handle_checkInitialization (p1 = FALSE) and of
\* handle_initialize (p1 = TRUE): ZP to every motor that is not
\* initialised, and P1 when it answers ZP+0
pollAxis(b, answered, p1) ==
    LET asked == {m \in Motors : ~b.isInitialized[m]}
        ready == {m \in asked : answered[m] /\ b.axis[m] = 2}
    IN  [b EXCEPT !.isInitialized = [m \in Motors |-> b.isInitialized[m] \/ m \in ready],
                  !.fresh = [m \in Motors |-> b.fresh[m] \/ m \in ready],
                  !.local = asked = ready,
                  !.axis = [m \in Motors |->
                               IF p1 /\ m \in asked /\ answered[m] /\ b.axis[m] = 0
                               THEN 1 ELSE b.axis[m]]]

\* "if (isInitialized) { robotIsInitialized = true; doInitialize = false;
\* ... emit robotInitialized(); }"
\* handle_initialize goes on: "if(extEnable() && extSendConfig(0))
\* m_isExtendedMode = true"; ext: both exchanges succeed
reportInitialized(b, ext) ==
    IF b.local
    THEN [b EXCEPT !.robotIsInitialized = TRUE, !.doInitialize = FALSE, !.emitted = TRUE,
                   !.m_isExtendedMode = IF b.pc = "initialize" /\ ext THEN TRUE
                                        ELSE b.m_isExtendedMode]
    ELSE b

BringupFrame ==
    UNCHANGED <<devVars, hostVars, serialVars, motionSequence, head, wire, wireMotion,
                chat, transition, driver, startMove, nanoj, ring, resync, player, calls, upload, bus>>

\* on_initButton_clicked: the user interface thread calls initializeRobot()
\* wherever the transport thread is
InitClicked ==
    /\ bringup' = initializeRobot(bringup)
    /\ BringupFrame

\* step(): "else if (!robotIsReset) handle_robotReset();"
StepReset(answered) ==
    /\ bringup.pc = "step"
    /\ ~bringup.robotIsReset
    /\ bringup' = robotReset(bringup, answered)
    /\ BringupFrame

\* step(): handle_checkInitialization or handle_initialize is entered and
\* its for loop run
StepPoll(answered) ==
    /\ bringup.pc = "step"
    /\ bringup.robotIsReset
    /\ bringup.doCheckInitialization \/ bringup.doInitialize
    /\ bringup' = [pollAxis(bringup, answered, ~bringup.doCheckInitialization)
                   EXCEPT !.pc = IF bringup.doCheckInitialization THEN "check"
                                 ELSE "initialize"]
    /\ BringupFrame

\* the handler goes on after its for loop and returns
StepFinish(ext) ==
    /\ bringup.pc \in {"check", "initialize"}
    /\ bringup' = [reportInitialized(bringup, ext)
                   EXCEPT !.pc = "step",
                          !.doCheckInitialization =
                              IF bringup.pc = "check" THEN FALSE
                              ELSE bringup.doCheckInitialization]
    /\ BringupFrame

\* step(): "else if(!m_isExtendedMode) { if(extEnable()) m_isExtendedMode =
\* true; }"
StepExtend(ext) ==
    /\ bringup.pc = "step"
    /\ bringup.robotIsReset /\ ~bringup.doCheckInitialization /\ ~bringup.doInitialize
    /\ ~bringup.m_isExtendedMode
    /\ bringup' = [bringup EXCEPT !.m_isExtendedMode = ext]
    /\ BringupFrame

\* the motor controller finishes the initialisation started by P1
AxisInitialized(m) ==
    /\ bringup.axis[m] = 1
    /\ bringup' = [bringup EXCEPT !.axis[m] = 2]
    /\ BringupFrame

BringupNext ==
    \/ InitClicked
    \/ \E answered \in [Motors -> BOOLEAN] : StepReset(answered)
    \/ \E answered \in [Motors -> BOOLEAN] : StepPoll(answered)
    \/ \E ext \in BOOLEAN : StepFinish(ext)
    \/ \E ext \in BOOLEAN : StepExtend(ext)
    \/ \E m \in Motors : AxisInitialized(m)

SpecBringup == Init /\ [][BringupNext]_vars

\* C36: in every interleaving of initializeRobot() with step(), while the
\* host reports the robot as initialised (robotIsInitialized set,
\* robotInitialized emitted) every axis has answered ZP+2 after the last P0
\* that was sent to it
C36_InitializedAfterReset ==
    (bringup.robotIsInitialized /\ bringup.emitted) => \A m \in Motors : bringup.fresh[m]

(***************************************************************************)
(* Host: the list of the player and the traversal by transferKeyframes     *)
(***************************************************************************)

\* calls of playTheseFrames followed
MaxBuilds == 3

\* items of a timeline built from two keyframes and more with a robot
\* connected (looped is set): the head, the moves, the pauses, the move back
\* to the first keyframe
TimelineLengths == {Len(playTheseFrames(kfs, TRUE, <<KeyframePlayerItem0>>)) :
                        kfs \in PlayerSequences}

\* playTheseFrames: "delete head->next", then the list is built anew
rebuild(u, n) == [u EXCEPT !.built = u.built + 1, !.items = n]

\* on_playButton_clicked / on_loopButton_clicked with a robot connected and
\* the player not playing
playClicked(u, kc, n) ==
    IF u.m_isPlaying THEN [u EXCEPT !.m_stopPlaying = TRUE]
    ELSE [rebuild(u, n) EXCEPT !.queue = Append(u.queue, kc)]

\* on_flashButton_clicked
flashClicked(u, n) == [rebuild(u, n) EXCEPT !.queue = Append(u.queue, KC_COMMIT)]

UploadFrame ==
    UNCHANGED <<devVars, hostVars, serialVars, motionSequence, head, wire, wireMotion,
                chat, transition, driver, startMove, nanoj, ring, resync, player, calls,
                bringup, bus>>

\* the play or the loop button is clicked
PlayClicked(kc, n) ==
    /\ upload.built < MaxBuilds
    /\ Len(upload.queue) < MaxTransfers
    /\ upload.fault # "crash"
    /\ upload' = playClicked(upload, kc, n)
    /\ UploadFrame

\* the flash button is clicked
FlashClicked(n) ==
    /\ upload.built < MaxBuilds
    /\ Len(upload.queue) < MaxTransfers
    /\ upload.fault # "crash"
    /\ upload' = flashClicked(upload, n)
    /\ UploadFrame

\* the transport thread delivers keyframeTransferRequested: transferKeyframes
\* is entered with the head of the list as it is now
TransferEnter ==
    /\ upload.phase = "idle"
    /\ upload.queue # <<>>
    /\ upload' = [upload EXCEPT !.queue = Tail(upload.queue), !.cmd = Head(upload.queue),
                                !.m_stopPlaying = FALSE, !.walking = upload.built,
                                !.at = 1, !.phase = "walk"]
    /\ UploadFrame

\* transferKeyframes, one pass of "for(; head; head = head->next)".  An
\* item of a list that was deleted meanwhile is freed memory: the pass reads
\* what is left of it (outcome "stale") or the thread faults ("crash")
TransferWalk(outcome) ==
    /\ upload.phase = "walk"
    /\ IF upload.walking # upload.built
       THEN upload' = [upload EXCEPT !.fault = outcome,
                                     !.phase = IF outcome = "crash" THEN "dead" ELSE "send"]
       ELSE IF upload.at < upload.items
       THEN upload' = [upload EXCEPT !.at = upload.at + 1]
       ELSE upload' = [upload EXCEPT !.phase = "send"]
    /\ UploadFrame

\* transferKeyframes from extSendConfig on: the frames are sent from the
\* copy, PLAY sets m_isPlaying
TransferSend(ok) ==
    /\ upload.phase = "send"
    /\ upload' = [upload EXCEPT !.phase = "idle", !.walking = 0, !.at = 0,
                                !.m_isPlaying = ok /\ upload.cmd \in {KC_PLAY, KC_LOOP}]
    /\ UploadFrame

\* handle_extendedMode: the device reports the end of the playback, or the
\* stop asked for is done
PlaybackOver ==
    /\ upload.phase = "idle"
    /\ upload.m_isPlaying
    /\ upload' = [upload EXCEPT !.m_isPlaying = FALSE, !.m_stopPlaying = FALSE]
    /\ UploadFrame

UploadRaceNext ==
    \/ \E kc \in {KC_PLAY, KC_LOOP}, n \in TimelineLengths : PlayClicked(kc, n)
    \/ \E n \in TimelineLengths : FlashClicked(n)
    \/ TransferEnter
    \/ \E outcome \in {"stale", "crash"} : TransferWalk(outcome)
    \/ \E ok \in BOOLEAN : TransferSend(ok)
    \/ PlaybackOver

SpecUploadRace == Init /\ [][UploadRaceNext]_vars

\* C37: under every sequence of Play, Loop and Flash clicks the list that
\* transferKeyframes traverses is the one the player holds: playTheseFrames
\* does not delete or rebuild it before the traversal is over
C37_ListStaysWhileWalked ==
    /\ [](upload.phase = "walk" => upload.walking = upload.built)
    /\ [](upload.fault = "none")

(***************************************************************************)
(* Device: readRegister and the replies of the motor controllers           *)
(***************************************************************************)

\* readRegister calls made in a run of the model
MaxRequests == 3

\* the ids and registers asked, and the values a controller holds: "P" the
\* state (nt_state), "I" the encoder position (nt_encoderPosition)
BusIds == {1, 2}
BusRegisters == {"P", "I"}
BusValues == {3, 7}

\* the characters '0' .. '9' of snprintf's %d and of "'0' + id"
DigitChar == <<"0", "1", "2", "3", "4", "5", "6", "7", "8", "9">>

IsDigit(c) == \E d \in 0 .. 9 : DigitChar[d + 1] = c

DigitValue(c) == CHOOSE d \in 0 .. 9 : DigitChar[d + 1] = c

\* "snprintf(cmd_buf, sizeof(cmd_buf), "#%dZ%c", id, reg)" is answered by the
\* controller id with "<id>Z<reg><value>\r" (the form lines 149-161 accept);
\* every byte carries the request it answers
ControllerReply(id, reg, value, req) ==
    [i \in 1 .. 5 |->
        [c |-> <<DigitChar[id + 1], "Z", reg, DigitChar[value + 1], "\r">>[i],
         req |-> req]]

\* strtol(answer_buf + 3, &endptr, 10) on digits: the value of the leading
\* digits and what is left at endptr
RECURSIVE strtol(_, _)
strtol(chars, acc) ==
    IF chars # <<>> /\ IsDigit(Head(chars))
    THEN strtol(Tail(chars), 10 * acc + DigitValue(Head(chars)))
    ELSE [value |-> acc, endptr |-> chars]

\* readRegister from "if(response_len < 4)" on: the length, the id, 'Z' and
\* the register are compared, the rest is parsed as a number
readRegisterAccepts(id, reg, answer) ==
    /\ Len(answer) >= 4
    /\ answer[1] = DigitChar[id + 1]
    /\ answer[2] = "Z"
    /\ answer[3] = reg
    /\ strtol(SubSeq(answer, 4, Len(answer)), 0).endptr = <<>>

readRegisterReturn(b, answer) ==
    LET chars == [i \in 1 .. Len(answer) |-> answer[i].c]
        ok == readRegisterAccepts(b.id, b.reg, chars)
    IN [b EXCEPT !.pc = "idle",
                 !.answer_buf = <<>>,
                 !.ret = [ok |-> ok,
                          value |-> IF ok THEN strtol(SubSeq(chars, 4, Len(chars)), 0).value
                                    ELSE 0,
                          from |-> {answer[i].req : i \in 1 .. Len(answer)},
                          req |-> b.req]]

\* readRegister up to readResponse: the command is written; nothing is taken
\* out of com_buf_from_bot.  The controller puts its reply on the line
readRegisterSend(b, id, reg, value) ==
    [b EXCEPT !.req = b.req + 1,
              !.pc = "read",
              !.id = id,
              !.reg = reg,
              !.answer_buf = <<>>,
              !.line = b.line \o ControllerReply(id, reg, value, b.req + 1)]

\* readResponse, one pass of while(1) with a byte available: '\r' ends the
\* response, another byte is stored in dest
readResponseGet(b) ==
    LET c == Head(b.com_buf_from_bot)
        rest == [b EXCEPT !.com_buf_from_bot = Tail(b.com_buf_from_bot)]
    IN IF c.c = "\r"
       THEN readRegisterReturn(rest, b.answer_buf)
       ELSE [rest EXCEPT !.answer_buf = Append(b.answer_buf, c)]

BusFrame ==
    UNCHANGED <<devVars, hostVars, serialVars, motionSequence, head, wire, wireMotion,
                chat, transition, driver, startMove, nanoj, ring, resync, player, calls,
                bringup, upload>>

ReadRegisterSend(id, reg, value) ==
    /\ bus.pc = "idle"
    /\ bus.req < MaxRequests
    /\ bus' = readRegisterSend(bus, id, reg, value)
    /\ BusFrame

\* ISR(USART3_RX_vect) with g_passthrough false: the byte received is put
\* in com_buf_from_bot
RobotByteReceived ==
    /\ bus.line # <<>>
    /\ bus' = [bus EXCEPT !.line = Tail(bus.line),
                          !.com_buf_from_bot = Append(bus.com_buf_from_bot, Head(bus.line))]
    /\ BusFrame

ReadResponseGet ==
    /\ bus.pc = "read"
    /\ bus.com_buf_from_bot # <<>>
    /\ bus' = readResponseGet(bus)
    /\ BusFrame

\* readResponse, 255 waits of 30 us without a byte: "return 0; // timeout",
\* and readRegister returns false on "response_len < 4"
ReadResponseTimeout ==
    /\ bus.pc = "read"
    /\ bus.com_buf_from_bot = <<>>
    /\ bus' = readRegisterReturn(bus, <<>>)
    /\ BusFrame

BusNext ==
    \/ \E id \in BusIds, reg \in BusRegisters, value \in BusValues :
           ReadRegisterSend(id, reg, value)
    \/ RobotByteReceived
    \/ ReadResponseGet
    \/ ReadResponseTimeout

SpecBus == Init /\ [][BusNext]_vars

\* C38: every value readRegister returns was sent by the controller in
\* reply to that very request: the bytes of an accepted response all answer
\* the request readRegister has just written, never an earlier one that
\* timed out.
C38_ReplyOfRequest == bus.ret.ok => bus.ret.from = {bus.ret.req}

(***************************************************************************)
(* Device: the look-ahead loop and the segments of a playback              *)
(***************************************************************************)

\* C39: every pass of the look-ahead loop "while(delta > c->duration)"
\* terminates and the playback loop goes on to poll inbound commands, for
\* every sequence and configuration the device can hold, in loop and in
\* non-loop mode, also with non-initial frames of duration 0: the device is
\* never in a look-ahead loop that does not end.
C39_LookAheadEnds == devPc # "hang"

\* packets of a playback of stored sequences of three and of four frames:
\* the start frame, moving frames with different output commands at the
\* indices 1 .. 3, PLAY with and without PF_LOOP, STOP
SegmentPackets ==
    {Packet(CMD_STOP, 0)}
    \cup {[Packet(CMD_PLAY, 1) EXCEPT !.flags = f] : f \in {0, PF_LOOP}}
    \cup {[Packet(CMD_CONFIG, SIZEOF_Config) EXCEPT !.config = Config(n, 1, MaxDuration + 1)] :
              n \in {3, 4}}
    \cup {[Packet(CMD_SAVE_KEYFRAME, SIZEOF_SaveKeyframe) EXCEPT
               !.index = 0, !.keyframe = Keyframe(0, NT_POSITION_BIAS, OC_NOP)]}
    \cup {[Packet(CMD_SAVE_KEYFRAME, SIZEOF_SaveKeyframe) EXCEPT
               !.index = i,
               !.keyframe = Keyframe(1, NT_POSITION_BIAS + 100,
                                     IF i = 2 THEN OC_RESET ELSE OC_SET)] :
              i \in 1 .. 3}

SegmentsNext ==
    \/ PassthroughInit(FALSE)
    \/ \E p \in SegmentPackets, e \in EncInputs : Dispatch(p, EncReading(e), FALSE)
    \/ \E dt \in TickInputs : TimerISR(dt)
    \/ \E e \in EncInputs : StartKfIter(EncReading(e), NoPacket, EncReading(NoEnc), FALSE)
    \/ StartKfFail
    \/ \E b \in BOOLEAN, p \in {NoPacket, Packet(CMD_STOP, 0)} :
           SegmentIter(b, p, EncReading(NoEnc), FALSE)
    \/ SegmentEnd
    \/ \E h \in BOOLEAN : SyncPoll(h)

SpecSegments == Init /\ [][SegmentsNext]_vars

\* the sequencer is in a segment of a playback that does not loop: PLAY
\* came without PF_LOOP and no look-ahead has read the button as pressed
InPlainSegment == devPc = "segment" /\ ~force_loop /\ ~loop

\* the output command of the segment the sequencer is in has been applied
OutputApplied == output' = executeOutputCommand(output, BufferAt(g_buffer, seg_i).output_command)

\* C40: a non-loop PLAY of a stored sequence of n keyframes, with the start
\* button not pressed, executes the segments 1 to n-2 exactly once each in
\* increasing index order, applies each segment's output command after that
\* segment and then clears is_playing; the segment n-1 is executed in loop
\* mode only.  The playback enters at segment 1, is only in segments up to
\* n-2, goes from a segment whose time is over to the next one, and leaves
\* the last one, unless it was stopped, from segment n-2 to the command
\* loop with g_isPlaying false.  (A look-ahead that reads the button as
\* pressed sets loop or, over frames of duration 0, does not end.)
C40_PlainPlayback ==
    /\ [](InPlainSegment => seg_i \in 1 .. mem_config.num_keyframes - 2)
    /\ [][devPc # "segment" /\ InPlainSegment' => seg_i' = 1]_vars
    /\ [][InPlainSegment /\ InPlainSegment' /\ seg_i' # seg_i
            => /\ seg_i' = seg_i + 1
               /\ g_reached /\ ~g_shouldStop
               /\ OutputApplied]_vars
    /\ [][InPlainSegment /\ devPc' \notin {"segment", "hang"} /\ ~g_shouldStop
            => /\ seg_i = mem_config.num_keyframes - 2
               /\ g_reached
               /\ OutputApplied
               /\ devPc' = "dispatch"
               /\ ~g_isPlaying']_vars

\* a playback of four frames without looping has run segment 1 and is at the
\* end of segment 2, its last one
C40_Witness ==
    /\ InPlainSegment
    /\ mem_config.num_keyframes = 4
    /\ seg_i = 2
    /\ g_reached /\ ~g_shouldStop
    /\ g_buffer[1].output_command = OC_SET
    /\ g_buffer[2].output_command = OC_RESET
    /\ output

====
